---- MODULE Spec2Model ----
(***************************************************************************)
(* Testnet payment simulator of ecomprj/cryptopayments: the in-memory      *)
(* ledger (TestnetBlockchain), the wallet (TestnetWallet), the invoice     *)
(* processor (TestnetPaymentProcessor) and the tasks it hands to the       *)
(* WebhookQueue.                                                           *)
(*                                                                         *)
(* Amounts are Python floats in the source.  Here every float v is the     *)
(* integer v * 100000 (one unit = 0.00001 coin), so that the fee           *)
(* calculate_fee(x) = x * 0.00001 is exact integer arithmetic for the      *)
(* whole-coin inputs the model draws.  Floating-point rounding is not      *)
(* modelled.                                                               *)
(***************************************************************************)
EXTENDS Integers, Sequences, FiniteSets, TLC

VARIABLES
    chain,                  \* TestnetBlockchain.chain
    pending_transactions,   \* TestnetBlockchain.pending_transactions
    mempool,                \* TestnetBlockchain.mempool
    balances,               \* TestnetBlockchain.balances (dict: only the keys ever written)
    address_counter,        \* TestnetWallet.address_counter
    addresses,              \* TestnetWallet.addresses
    invoices,               \* TestnetPaymentProcessor.invoices, in creation order
    queue,                  \* WebhookQueue.queue, tasks in FIFO order
    now,                    \* time.time(), in whole seconds
    next_tx,                \* number of Transaction objects admitted so far (source of fresh uuid4 tx ids)
    worker,                 \* the task the delivery thread has pulled off the queue, or None
    deliveries,             \* the calls of _send_webhook so far, in order, with their results
    generated,              \* the addresses generate_address has returned so far, in order
    ret,                    \* the last call and the value it returned to its caller
    threads,                \* per request thread: the statement it is at and its local variables
    request_log             \* api._INVOICE_REQUEST_LOG: per client key, the times of its admitted requests

vars == <<chain, pending_transactions, mempool, balances, address_counter,
          addresses, invoices, queue, now, next_tx, worker, deliveries, generated, ret,
          threads, request_log>>

----------------------------------------------------------------------------
(* Bounds of the exploration *)

MaxTx == 3          \* Transaction objects admitted to the ledger
MaxAddr == 3        \* addresses the wallet may generate
MaxInvoices == 1    \* invoices the processor may create
MaxTicks == 2       \* clock advances
MaxWebhooks == 1    \* tasks callers hand to the WebhookQueue directly

(* Program constants *)

Coin == 100000              \* 1.0 in ledger units; calculate_fee multiplies by 0.00001 = 1/Coin
InvoiceLifetime == 3600     \* expires_at = created_at + 3600
TransactionSizeBytes == 250 \* size assumed by send_funds for the fee
FaucetFactor == 2           \* create_refund funds the merchant address with amount * 2

xpub == "xpub_simulated_master_key"
WebhookUrl == "http://your-ecommerce-backend.com/webhook"

(* Addresses are strings in the source.  f"{xpub}_{counter}" is the pair   *)
(* <<xpub, counter>>; any other string s is <<s, 0>>.                      *)
WalletAddress(k) == <<xpub, k>>
Network == <<"network", 0>>
ExternalAddress == <<"addrX", 0>>

\* a tx_id argument that is absent or falsy (None, "")
NoTxId == 0

(* Inputs the callers draw from *)
TickStep == InvoiceLifetime
LedgerAddressInputs == {WalletAddress(0), WalletAddress(1)}
LedgerAmountInputs == {0, 6 * Coin, 10 * Coin}
PaymentAmountInputs == {5 * Coin}
InvoiceAmountInputs == {5 * Coin, 10 * Coin}
RefundAmountInputs == {0, 5 * Coin, 6 * Coin, 10 * Coin}
DustAmountInputs == {TransactionSizeBytes \div 2}
ClientKeyInputs == {"10.0.0.1", "10.0.0.2"}
UnknownInvoiceIds == {0}
InvoiceIdInputs == (1..MaxInvoices) \cup UnknownInvoiceIds
RefundTxBudget == MaxTx + 3
LargeAmount == 300 * Coin
SuppliedTxIds == {101}
UnknownTxIds == {102}
TxIdInputs == {NoTxId} \cup SuppliedTxIds
ProofIdInputs == (1..MaxTx) \cup SuppliedTxIds \cup UnknownTxIds
WebhookPayloadInputs == 1..MaxWebhooks
WebhookUrlInputs == {WebhookUrl, "http://example.com/webhook"}
WalletAddressInputs == {WalletAddress(0), ExternalAddress}
WalletAmountInputs == {0, 2 * Coin, 5 * Coin, LargeAmount}
FaucetAmountInputs == {0, 10 * Coin, LargeAmount + 275}

----------------------------------------------------------------------------
(* testnet_blockchain.py *)

\* str(uuid.uuid4()): a fresh id, never equal to another; the k-th Transaction
\* object constructed draws k
uuid4(obj) == obj

\* Transaction.__init__: amount_with_fee = amount + fee, timestamp = time.time(),
\* tx_id = tx_id if tx_id else str(uuid.uuid4()).  obj is the identity of the
\* Python object (the class defines no __eq__, so "in" and "==" compare objects).
Transaction(obj, sender, recipient, amount, tx_id, fee, t) ==
    [obj |-> obj, sender |-> sender, recipient |-> recipient, amount |-> amount,
     fee |-> fee, amount_with_fee |-> amount + fee, timestamp |-> t,
     tx_id |-> IF tx_id # NoTxId THEN tx_id ELSE uuid4(obj)]

\* Block.calculate_hash: sha256 over the concatenated fields, modelled as the
\* tuple of the fields (a collision-free digest); str(transactions) prints the
\* identities of the transaction objects.
calculate_hash(index, timestamp, transactions, previous_hash, nonce) ==
    <<index, timestamp, [k \in 1..Len(transactions) |-> transactions[k].obj],
      previous_hash, nonce>>

\* Block.__init__
Block(index, timestamp, transactions, previous_hash, nonce) ==
    [index |-> index, timestamp |-> timestamp, transactions |-> transactions,
     previous_hash |-> previous_hash, nonce |-> nonce,
     hash |-> calculate_hash(index, timestamp, transactions, previous_hash, nonce)]

\* TestnetBlockchain.create_genesis_block: Block(0, time.time(), [], "0")
GenesisPreviousHash == <<"0">>
create_genesis_block(t) == Block(0, t, <<>>, GenesisPreviousHash, 0)

\* Python's None
None == [none |-> TRUE]

\* the ledger part of the state, as one value
Ledger ==
    [chain |-> chain, pending_transactions |-> pending_transactions,
     mempool |-> mempool, balances |-> balances]

\* a variant of last_block that returns chain[0] instead of chain[-1]
last_block_first(L) == L.chain[1]

\* TestnetBlockchain.last_block: chain[-1]
last_block(L) == L.chain[Len(L.chain)]

\* calculate_fee: transaction_size_bytes * 0.00001
calculate_fee(size) == size \div Coin

\* dict.get(address, 0)
BalanceOf(bal, address) == IF address \in DOMAIN bal THEN bal[address] ELSE 0

\* TestnetBlockchain.get_balance
get_balance(L, address) == BalanceOf(L.balances, address)

\* dict item assignment
SetBalance(bal, address, v) ==
    [a \in (DOMAIN bal) \cup {address} |-> IF a = address THEN v ELSE bal[a]]

\* a variant of the admission test without the test of the amount
add_transaction_accepts_any_amount(L, tx) ==
    ~(tx.sender # Network
      /\ get_balance(L, tx.sender) < tx.amount + calculate_fee(tx.amount))

\* the admission test of add_transaction
add_transaction_accepts(L, tx) ==
    /\ ~(tx.amount <= 0)
    /\ ~(tx.sender # Network
         /\ get_balance(L, tx.sender) < tx.amount + calculate_fee(tx.amount))

\* TestnetBlockchain.add_transaction
add_transaction(L, tx) ==
    IF add_transaction_accepts(L, tx)
    THEN [L |-> [L EXCEPT !.pending_transactions = Append(@, tx),
                          !.mempool = Append(@, tx)],
          out |-> TRUE]
    ELSE [L |-> L, out |-> FALSE]

\* a variant of the loop body that credits the recipient with the fee as well
UpdateBalance_fee_to_recipient(bal, tx) ==
    LET b1 == IF tx.sender # Network
              THEN SetBalance(bal, tx.sender, BalanceOf(bal, tx.sender) - tx.amount_with_fee)
              ELSE bal
    IN SetBalance(b1, tx.recipient, BalanceOf(b1, tx.recipient) + tx.amount_with_fee)

\* a variant of the loop body that charges the sender the amount without the fee
UpdateBalance_without_fee(bal, tx) ==
    LET b1 == IF tx.sender # Network
              THEN SetBalance(bal, tx.sender, BalanceOf(bal, tx.sender) - tx.amount)
              ELSE bal
    IN SetBalance(b1, tx.recipient, BalanceOf(b1, tx.recipient) + tx.amount)

\* one iteration of the loop of _update_balances
UpdateBalance(bal, tx) ==
    LET b1 == IF tx.sender # Network
              THEN SetBalance(bal, tx.sender, BalanceOf(bal, tx.sender) - tx.amount_with_fee)
              ELSE bal
    IN SetBalance(b1, tx.recipient, BalanceOf(b1, tx.recipient) + tx.amount)

RECURSIVE update_balances(_, _)
\* TestnetBlockchain._update_balances
update_balances(bal, transactions) ==
    IF transactions = <<>> THEN bal
    ELSE update_balances(UpdateBalance(bal, Head(transactions)), Tail(transactions))

\* the loop of mine_block that sets amount_with_fee on each pending transaction
FinalizeFee(tx) ==
    IF tx.sender # Network
    THEN [tx EXCEPT !.amount_with_fee = tx.amount + calculate_fee(tx.amount)]
    ELSE [tx EXCEPT !.amount_with_fee = tx.amount]

\* "tx in transactions_to_mine": the mined objects are the pending objects
\* themselves
IsMined(tx, transactions_to_mine) ==
    \E k \in 1..Len(transactions_to_mine) : transactions_to_mine[k].obj = tx.obj

\* a variant of mine_block without the early return on an empty pending list
mine_block_even_if_empty(L, t) ==
    LET transactions_to_mine ==
            [k \in 1..Len(L.pending_transactions) |-> FinalizeFee(L.pending_transactions[k])]
        new_block == Block(Len(L.chain), t, transactions_to_mine, last_block(L).hash, 0)
    IN [L |-> [chain |-> Append(L.chain, new_block),
               balances |-> update_balances(L.balances, new_block.transactions),
               pending_transactions |-> <<>>,
               mempool |-> SelectSeq(L.mempool,
                              LAMBDA tx : ~IsMined(tx, transactions_to_mine))],
        out |-> new_block]

\* a variant of mine_block that leaves the mempool as it is
mine_block_keeps_mempool(L, t) ==
    IF L.pending_transactions = <<>>
    THEN [L |-> L, out |-> None]
    ELSE LET transactions_to_mine ==
                 [k \in 1..Len(L.pending_transactions) |-> FinalizeFee(L.pending_transactions[k])]
             new_block == Block(Len(L.chain), t, transactions_to_mine, last_block(L).hash, 0)
         IN [L |-> [chain |-> Append(L.chain, new_block),
                    balances |-> update_balances(L.balances, new_block.transactions),
                    pending_transactions |-> <<>>,
                    mempool |-> L.mempool],
             out |-> new_block]

\* TestnetBlockchain.mine_block
mine_block(L, t) ==
    IF L.pending_transactions = <<>>
    THEN [L |-> L, out |-> None]
    ELSE LET transactions_to_mine ==
                 [k \in 1..Len(L.pending_transactions) |-> FinalizeFee(L.pending_transactions[k])]
             last_block_hash == last_block(L).hash
             new_block_index == Len(L.chain)
             new_block == Block(new_block_index, t, transactions_to_mine, last_block_hash, 0)
         IN [L |-> [chain |-> Append(L.chain, new_block),
                    balances |-> update_balances(L.balances, new_block.transactions),
                    pending_transactions |-> <<>>,
                    mempool |-> SelectSeq(L.mempool,
                                   LAMBDA tx : ~IsMined(tx, transactions_to_mine))],
             out |-> new_block]

\* all confirmed transactions, block by block
RECURSIVE ConfirmedFrom(_, _)
ConfirmedFrom(ch, i) ==
    IF i > Len(ch) THEN <<>> ELSE ch[i].transactions \o ConfirmedFrom(ch, i + 1)

\* TestnetBlockchain.get_transactions_for_address
get_transactions_for_address(L, address) ==
    SelectSeq(ConfirmedFrom(L.chain, 1),
              LAMBDA tx : tx.sender = address \/ tx.recipient = address)

\* Transaction.to_dict: the fields of the object, without its identity
to_dict(tx) ==
    [sender |-> tx.sender, recipient |-> tx.recipient, amount |-> tx.amount,
     fee |-> tx.fee, amount_with_fee |-> tx.amount_with_fee,
     timestamp |-> tx.timestamp, tx_id |-> tx.tx_id]

\* TestnetBlockchain.get_mempool_transactions
get_mempool_transactions(L) == L.mempool

\* the positions of the blocks that hold a transaction with this tx_id
BlocksWithTxId(ch, tx_id) ==
    {i \in 1..Len(ch) : \E k \in 1..Len(ch[i].transactions) :
                            ch[i].transactions[k].tx_id = tx_id}

\* TestnetBlockchain.generate_payment_proof: the first block, in chain order,
\* that holds a transaction with this tx_id
generate_payment_proof(L, tx_id) ==
    LET found == BlocksWithTxId(L.chain, tx_id)
    IN IF found = {}
       THEN [error |-> "Transaction not found"]
       ELSE LET i == CHOOSE j \in found : \A m \in found : j <= m
                block == L.chain[i]
            IN [tx_id |-> tx_id, block_hash |-> block.hash, block_index |-> block.index,
                confirmation_time |-> block.timestamp,
                simulated_merkle_proof |-> <<"merkle_proof_for_tx", tx_id, "in_block", block.index>>]

----------------------------------------------------------------------------
(* testnet_wallet.py *)

\* the wallet part of the state
Wallet == [address_counter |-> address_counter, addresses |-> addresses]

\* a variant of generate_address that does not advance address_counter
generate_address_same_counter(W) ==
    LET derived_address == WalletAddress(W.address_counter)
    IN [W |-> [address_counter |-> W.address_counter,
               addresses |-> W.addresses \cup {derived_address}],
        out |-> derived_address]

\* TestnetWallet.generate_address (no BIP32 context: the xpub is the simulated key)
generate_address(W) ==
    LET derived_address == WalletAddress(W.address_counter)
    IN [W |-> [address_counter |-> W.address_counter + 1,
               addresses |-> W.addresses \cup {derived_address}],
        out |-> derived_address]

\* TestnetWallet.get_balance: warns about an unmanaged address, then asks the ledger
wallet_get_balance(L, W, address) == get_balance(L, address)

\* a variant of send_funds without the test that the wallet manages the sender
send_funds_any_sender(L, W, sender_address, recipient_address, amount, obj, t) ==
    LET fee == calculate_fee(TransactionSizeBytes * Coin)
        total_amount == amount + fee
    IN IF get_balance(L, sender_address) < total_amount
       THEN [L |-> L, out |-> FALSE]
       ELSE LET tx == [Transaction(obj, sender_address, recipient_address, amount,
                                   NoTxId, 0, t)
                          EXCEPT !.fee = fee]
            IN add_transaction(L, tx)

\* TestnetWallet.send_funds; obj is the Transaction object it builds
send_funds(L, W, sender_address, recipient_address, amount, obj, t) ==
    IF sender_address \notin W.addresses
    THEN [L |-> L, out |-> FALSE]
    ELSE LET fee == calculate_fee(TransactionSizeBytes * Coin)
             total_amount == amount + fee
         IN IF get_balance(L, sender_address) < total_amount
            THEN [L |-> L, out |-> FALSE]
            ELSE LET tx == [Transaction(obj, sender_address, recipient_address, amount,
                                        NoTxId, 0, t)
                               EXCEPT !.fee = fee]
                 IN add_transaction(L, tx)

\* a variant of faucet that leaves its transaction pending
faucet_without_mining(L, W, address, amount, obj, t) ==
    LET W1 == [W EXCEPT !.addresses = @ \cup {address}]
        faucet_transaction == Transaction(obj, Network, address, amount, NoTxId, 0, t)
        added == add_transaction(L, faucet_transaction)
    IN [L |-> added.L, W |-> W1, out |-> added.out]

\* TestnetWallet.faucet
faucet(L, W, address, amount, obj, t) ==
    LET W1 == [W EXCEPT !.addresses = @ \cup {address}]
        faucet_transaction == Transaction(obj, Network, address, amount, NoTxId, 0, t)
        added == add_transaction(L, faucet_transaction)
    IN IF added.out
       THEN [L |-> mine_block(added.L, t).L, W |-> W1, out |-> TRUE]
       ELSE [L |-> L, W |-> W1, out |-> FALSE]

----------------------------------------------------------------------------
(* testnet_webhook_queue.py *)

\* WebhookQueue.__init__: the default retry_delays, in seconds
retry_delays == <<5, 10, 30>>

\* a variant of add_webhook that puts the task at the head of the queue
add_webhook_at_front(q, url, payload, t) ==
    <<[url |-> url, payload |-> payload, current_retries |-> 0,
       next_attempt_time |-> t]>> \o q

\* WebhookQueue.add_webhook
add_webhook(q, url, payload, t) ==
    Append(q, [url |-> url, payload |-> payload, current_retries |-> 0,
               next_attempt_time |-> t])

\* a variant of the test of the clock that lets every task through
is_due_always(task, t) == TRUE

\* the delivery loop tests the clock before it calls _send_webhook
is_due(task, t) == ~(t < task.next_attempt_time)

\* a variant of the failure branch that gives up one retry early
reschedule_one_short(q, task, t) ==
    IF task.current_retries + 1 < Len(retry_delays)
    THEN LET next_delay == retry_delays[task.current_retries + 1]
         IN Append(q, [task EXCEPT !.current_retries = task.current_retries + 1,
                                   !.next_attempt_time = t + next_delay])
    ELSE q

\* a variant of the failure branch that does not count the retry
reschedule_without_count(q, task, t) ==
    IF task.current_retries < Len(retry_delays)
    THEN LET next_delay == retry_delays[task.current_retries + 1]
         IN Append(q, [task EXCEPT !.next_attempt_time = t + next_delay])
    ELSE q

\* the failure branch of the delivery loop: the queue afterwards.  Python
\* indexes retry_delays from 0, hence current_retries + 1.
reschedule(q, task, t) ==
    IF task.current_retries < Len(retry_delays)
    THEN LET next_delay == retry_delays[task.current_retries + 1]
         IN Append(q, [task EXCEPT !.current_retries = task.current_retries + 1,
                                   !.next_attempt_time = t + next_delay])
    ELSE q

\* one iteration of the loop of _process_webhooks on the task it has pulled;
\* success is what _send_webhook returns if it is called
process_webhook(q, task, success, t) ==
    IF ~is_due(task, t)
    THEN [queue |-> Append(q, task), attempted |-> FALSE]
    ELSE IF success
    THEN [queue |-> q, attempted |-> TRUE]
    ELSE [queue |-> reschedule(q, task, t), attempted |-> TRUE]

\* one iteration of the loop of _process_webhooks when the call of
\* _send_webhook raises: the handler of `except Exception` prints and sleeps,
\* and the task pulled by queue.get is not put back
process_webhook_raising(q, task, t) ==
    IF ~is_due(task, t)
    THEN [queue |-> Append(q, task), attempted |-> FALSE]
    ELSE [queue |-> q, attempted |-> TRUE]

----------------------------------------------------------------------------
(* testnet_payment_processor.py *)

\* TestnetInvoice.__init__; to_dict returns the same fields
TestnetInvoice(invoice_id, amount, currency, payment_address, t) ==
    [invoice_id |-> invoice_id, amount |-> amount, currency |-> currency,
     payment_address |-> payment_address, status |-> "pending", paid_amount |-> 0,
     created_at |-> t, expires_at |-> t + InvoiceLifetime]

\* uuid4 invoice ids: the k-th invoice created has id k
InvoiceIds == 1..Len(invoices)

RECURSIVE SumAmounts(_)
SumAmounts(txs) == IF txs = <<>> THEN 0 ELSE Head(txs).amount + SumAmounts(Tail(txs))

\* a variant of current_paid_amount that also counts unconfirmed transactions
current_paid_amount_with_pending(L, invoice) ==
    SumAmounts(SelectSeq(get_transactions_for_address(L, invoice.payment_address)
                             \o L.pending_transactions,
                         LAMBDA tx : tx.recipient = invoice.payment_address))

\* the summing loop of monitor_payments
current_paid_amount(L, invoice) ==
    SumAmounts(SelectSeq(get_transactions_for_address(L, invoice.payment_address),
                         LAMBDA tx : tx.recipient = invoice.payment_address))

\* a variant of is_terminal that lets paid invoices through
is_terminal_expired_only(invoice) == invoice.status = "expired"

\* the early return of monitor_payments for settled invoices
is_terminal(invoice) == invoice.status = "paid" \/ invoice.status = "expired"

\* a variant of monitor_payments that rescans the chain before it tests expiry
monitor_payments_scan_first(L, q, invoice, t) ==
    IF is_terminal(invoice)
    THEN [invoice |-> invoice, queue |-> q]
    ELSE LET cur == current_paid_amount(L, invoice)
             inv1 == IF cur > invoice.paid_amount
                     THEN [invoice EXCEPT !.paid_amount = cur]
                     ELSE invoice
         IN IF t > inv1.expires_at
            THEN [invoice |-> [inv1 EXCEPT !.status = "expired"], queue |-> q]
            ELSE IF inv1.paid_amount >= inv1.amount
            THEN LET inv2 == [inv1 EXCEPT !.status = "paid"]
                 IN [invoice |-> inv2, queue |-> add_webhook(q, WebhookUrl, inv2, t)]
            ELSE [invoice |-> inv1, queue |-> q]

\* a variant of monitor_payments that updates paid_amount and leaves the
\* invoice pending
monitor_payments_keeps_pending(L, q, invoice, t) ==
    IF is_terminal(invoice)
    THEN [invoice |-> invoice, queue |-> q]
    ELSE IF t > invoice.expires_at
    THEN [invoice |-> [invoice EXCEPT !.status = "expired"], queue |-> q]
    ELSE LET cur == current_paid_amount(L, invoice)
         IN [invoice |-> IF cur > invoice.paid_amount
                         THEN [invoice EXCEPT !.paid_amount = cur]
                         ELSE invoice,
             queue |-> q]

\* TestnetPaymentProcessor.monitor_payments on a known invoice:
\* the invoice afterwards and the webhook queue afterwards
monitor_payments(L, q, invoice, t) ==
    IF is_terminal(invoice)
    THEN [invoice |-> invoice, queue |-> q]
    ELSE IF t > invoice.expires_at
    THEN [invoice |-> [invoice EXCEPT !.status = "expired"], queue |-> q]
    ELSE LET cur == current_paid_amount(L, invoice)
             inv1 == IF cur > invoice.paid_amount
                     THEN [invoice EXCEPT !.paid_amount = cur]
                     ELSE invoice
         IN IF inv1.paid_amount >= inv1.amount
            THEN LET inv2 == [inv1 EXCEPT !.status = "paid"]
                 IN [invoice |-> inv2, queue |-> add_webhook(q, WebhookUrl, inv2, t)]
            ELSE [invoice |-> inv1, queue |-> q]

\* TestnetPaymentProcessor.watch_mempool
watch_mempool(L, address) ==
    LET touching == SelectSeq(get_mempool_transactions(L),
                              LAMBDA tx : tx.recipient = address \/ tx.sender = address)
    IN [k \in 1..Len(touching) |-> to_dict(touching[k])]

\* a variant of the validation of create_refund without the status test
create_refund_error_any_status(invoice_id, amount) ==
    IF invoice_id \notin InvoiceIds THEN "Invoice not found"
    ELSE IF amount <= 0 \/ amount > invoices[invoice_id].paid_amount
    THEN "Invalid refund amount."
    ELSE ""

\* the validation of create_refund: the error it returns, or "" when it passes
create_refund_error(invoice_id, amount) ==
    IF invoice_id \notin InvoiceIds THEN "Invoice not found"
    ELSE IF invoices[invoice_id].status # "paid"
    THEN "Cannot refund an unpaid or expired invoice."
    ELSE IF amount <= 0 \/ amount > invoices[invoice_id].paid_amount
    THEN "Invalid refund amount."
    ELSE ""

\* a variant of the body of create_refund that mines a block once the refund
\* transaction is sent
refund_transfer_then_mine(L, W, refund_address, amount, obj, t) ==
    LET gen == generate_address(W)
        merchant_address == gen.out
        funded == faucet(L, gen.W, merchant_address, amount * FaucetFactor, obj, t)
        sent == send_funds(funded.L, funded.W, merchant_address, refund_address, amount,
                           obj + (IF funded.out THEN 1 ELSE 0), t)
    IN [L |-> IF sent.out THEN mine_block(sent.L, t).L ELSE sent.L,
        W |-> funded.W, out |-> sent.out, merchant_address |-> merchant_address,
        used |-> (IF funded.out THEN 1 ELSE 0) + (IF sent.out THEN 1 ELSE 0)]

\* the body of create_refund once validation has passed
refund_transfer(L, W, refund_address, amount, obj, t) ==
    LET gen == generate_address(W)
        merchant_address == gen.out
        funded == faucet(L, gen.W, merchant_address, amount * FaucetFactor, obj, t)
        sent == send_funds(funded.L, funded.W, merchant_address, refund_address, amount,
                           obj + (IF funded.out THEN 1 ELSE 0), t)
    IN [L |-> sent.L, W |-> funded.W, out |-> sent.out, merchant_address |-> merchant_address,
        used |-> (IF funded.out THEN 1 ELSE 0) + (IF sent.out THEN 1 ELSE 0)]

\* a variant of the sweep that expires every invoice past its expires_at,
\* whatever its status
check_for_expired_invoices_any_status(invs, current_time) ==
    [k \in 1..Len(invs) |->
        IF current_time > invs[k].expires_at
        THEN [invs[k] EXCEPT !.status = "expired"]
        ELSE invs[k]]

\* a variant of the sweep that clears paid_amount when it expires an invoice
check_for_expired_invoices_reset(invs, current_time) ==
    [k \in 1..Len(invs) |->
        IF invs[k].status = "pending" /\ current_time > invs[k].expires_at
        THEN [invs[k] EXCEPT !.status = "expired", !.paid_amount = 0]
        ELSE invs[k]]

\* a variant of the sweep that expires an invoice at expires_at already
check_for_expired_invoices_at_deadline(invs, current_time) ==
    [k \in 1..Len(invs) |->
        IF invs[k].status = "pending" /\ current_time >= invs[k].expires_at
        THEN [invs[k] EXCEPT !.status = "expired"]
        ELSE invs[k]]

\* the sweep of check_for_expired_invoices
check_for_expired_invoices(invs, current_time) ==
    [k \in 1..Len(invs) |->
        IF invs[k].status = "pending" /\ current_time > invs[k].expires_at
        THEN [invs[k] EXCEPT !.status = "expired"]
        ELSE invs[k]]

----------------------------------------------------------------------------
(* api.py *)

\* the defaults of _check_rate_limit
window_seconds == 60
max_requests == 10

\* a variant of _check_rate_limit that records rejected requests too
check_rate_limit_recording_rejected(log, key, t) ==
    LET timestamps == SelectSeq(log[key], LAMBDA x : t - x < window_seconds)
    IN [log |-> [log EXCEPT ![key] = Append(timestamps, t)],
        out |-> ~(Len(timestamps) >= max_requests)]

\* _check_rate_limit for the client key of the request, at time t: the log
\* afterwards and the decision
check_rate_limit(log, key, t) ==
    LET timestamps == SelectSeq(log[key], LAMBDA x : t - x < window_seconds)
    IN IF Len(timestamps) >= max_requests
       THEN [log |-> [log EXCEPT ![key] = timestamps], out |-> FALSE]
       ELSE [log |-> [log EXCEPT ![key] = Append(timestamps, t)], out |-> TRUE]

\* rest_framework's Response(data, status=...)
Response(data, status) == [data |-> data, status |-> status]

\* the parameters of TestnetPaymentProcessor.create_invoice, besides self
create_invoice_parameters == {"amount", "currency"}

\* the keyword arguments of the create_invoice call of the view
create_invoice_keywords == {"webhook_url"}

\* Python binds the arguments of a call before the callee runs, and raises
\* TypeError on a keyword the callee does not declare
call_binds(keywords, parameters) == keywords \subseteq parameters

----------------------------------------------------------------------------
(* State machine *)

\* the request threads of the server; api.py shares one ledger, wallet,
\* queue and processor between them
Threads == {"t1", "t2"}

\* a thread that is in no call
IdleThread ==
    [pc |-> "idle", invoice_id |-> 0, current_paid_amount |-> 0, transaction |-> None,
     transactions_to_mine |-> <<>>, new_block |-> None, updated |-> 0, kept |-> <<>>]

\* the value of ret after a call: the operation and what it returned.  Every
\* returned value is a record: a dict or object as it is, a bool b as
\* [ok |-> b], a string s as [address |-> s].
Returned(op, out) == [op |-> op, out |-> out]

SetLedger(L) ==
    /\ chain' = L.chain
    /\ pending_transactions' = L.pending_transactions
    /\ mempool' = L.mempool
    /\ balances' = L.balances

SetWallet(W) ==
    /\ address_counter' = W.address_counter
    /\ addresses' = W.addresses

\* TestnetBlockchain.__init__, TestnetWallet.__init__, TestnetPaymentProcessor.__init__
Init ==
    /\ chain = <<create_genesis_block(0)>>
    /\ pending_transactions = <<>>
    /\ mempool = <<>>
    /\ balances = <<>>
    /\ address_counter = 0
    /\ addresses = {}
    /\ invoices = <<>>
    /\ queue = <<>>
    /\ now = 0
    /\ next_tx = 0
    /\ worker = None
    /\ deliveries = <<>>
    /\ generated = <<>>
    /\ ret = Returned("init", None)
    /\ threads = [t \in Threads |-> IdleThread]
    /\ request_log = [key \in ClientKeyInputs |-> <<>>]

\* a caller builds Transaction(sender, recipient, amount, tx_id) and calls
\* add_transaction
AddTransactionWithId(sender, recipient, amount, tx_id) ==
    /\ LET r == add_transaction(Ledger, Transaction(next_tx + 1, sender, recipient, amount,
                                                    tx_id, 0, now))
       IN /\ SetLedger(r.L)
          /\ next_tx' = IF r.out THEN next_tx + 1 ELSE next_tx
          /\ ret' = Returned("add_transaction", [ok |-> r.out])
    /\ UNCHANGED <<address_counter, addresses, invoices, queue, now, worker, deliveries,
                   generated, threads, request_log>>

\* a caller builds Transaction(sender, recipient, amount) and calls add_transaction
AddTransaction(sender, recipient, amount) ==
    AddTransactionWithId(sender, recipient, amount, NoTxId)

\* a caller calls mine_block
MineBlock ==
    /\ LET r == mine_block(Ledger, now)
       IN /\ SetLedger(r.L)
          /\ ret' = Returned("mine_block", r.out)
    /\ UNCHANGED <<address_counter, addresses, invoices, queue, now, next_tx, worker,
                   deliveries, generated, threads, request_log>>

\* a caller calls wallet.generate_address
GenerateAddress ==
    /\ LET r == generate_address(Wallet)
       IN /\ SetWallet(r.W)
          /\ generated' = Append(generated, r.out)
          /\ ret' = Returned("generate_address", [address |-> r.out])
    /\ UNCHANGED <<chain, pending_transactions, mempool, balances, invoices, queue, now,
                   next_tx, worker, deliveries, threads, request_log>>

\* a caller calls wallet.send_funds
SendFunds(sender, recipient, amount) ==
    /\ LET r == send_funds(Ledger, Wallet, sender, recipient, amount, next_tx + 1, now)
       IN /\ SetLedger(r.L)
          /\ next_tx' = IF r.out THEN next_tx + 1 ELSE next_tx
          /\ ret' = Returned("send_funds", [ok |-> r.out])
    /\ UNCHANGED <<address_counter, addresses, invoices, queue, now, worker, deliveries,
                   generated, threads, request_log>>

\* a caller calls wallet.faucet
Faucet(address, amount) ==
    /\ LET r == faucet(Ledger, Wallet, address, amount, next_tx + 1, now)
       IN /\ SetLedger(r.L)
          /\ SetWallet(r.W)
          /\ next_tx' = IF r.out THEN next_tx + 1 ELSE next_tx
          /\ ret' = Returned("faucet", [ok |-> r.out])
    /\ UNCHANGED <<invoices, queue, now, worker, deliveries, generated, threads, request_log>>

\* a caller calls wallet.get_balance
WalletGetBalance(address) ==
    /\ ret' = Returned("get_balance", [balance |-> wallet_get_balance(Ledger, Wallet, address)])
    /\ UNCHANGED <<chain, pending_transactions, mempool, balances, address_counter,
                   addresses, invoices, queue, now, next_tx, worker, deliveries, generated,
                   threads, request_log>>

\* a caller calls generate_payment_proof
GeneratePaymentProof(tx_id) ==
    /\ ret' = Returned("generate_payment_proof", generate_payment_proof(Ledger, tx_id))
    /\ UNCHANGED <<chain, pending_transactions, mempool, balances, address_counter,
                   addresses, invoices, queue, now, next_tx, worker, deliveries, generated,
                   threads, request_log>>

\* a caller calls webhook_queue.add_webhook
AddWebhook(url, payload) ==
    /\ queue' = add_webhook(queue, url, payload, now)
    /\ ret' = Returned("add_webhook", None)
    /\ UNCHANGED <<chain, pending_transactions, mempool, balances, address_counter,
                   addresses, invoices, now, next_tx, worker, deliveries, generated, threads,
                   request_log>>

\* the delivery thread: task = self.queue.get(timeout=1) on a non-empty queue
WorkerGet ==
    /\ worker = None
    /\ queue # <<>>
    /\ worker' = Head(queue)
    /\ queue' = Tail(queue)
    /\ UNCHANGED <<chain, pending_transactions, mempool, balances, address_counter,
                   addresses, invoices, now, next_tx, deliveries, generated, ret, threads,
                   request_log>>

\* the delivery thread: the rest of the loop body on the task it holds
WorkerProcess(success) ==
    /\ worker # None
    /\ LET r == process_webhook(queue, worker, success, now)
       IN /\ queue' = r.queue
          /\ deliveries' = IF r.attempted
                           THEN Append(deliveries,
                                       [payload |-> worker.payload,
                                        retry |-> worker.current_retries,
                                        success |-> success])
                           ELSE deliveries
    /\ worker' = None
    /\ UNCHANGED <<chain, pending_transactions, mempool, balances, address_counter,
                   addresses, invoices, now, next_tx, generated, ret, threads, request_log>>

\* the delivery thread: the rest of the loop body on the task it holds, with a
\* transport that raises instead of returning
WorkerRaise ==
    /\ worker # None
    /\ LET r == process_webhook_raising(queue, worker, now)
       IN /\ queue' = r.queue
          /\ deliveries' = IF r.attempted
                           THEN Append(deliveries,
                                       [payload |-> worker.payload,
                                        retry |-> worker.current_retries,
                                        success |-> FALSE])
                           ELSE deliveries
    /\ worker' = None
    /\ UNCHANGED <<chain, pending_transactions, mempool, balances, address_counter,
                   addresses, invoices, now, next_tx, generated, ret, threads, request_log>>

\* TestnetPaymentProcessor.create_invoice
CreateInvoice(amount, currency) ==
    /\ LET gen == generate_address(Wallet)
           invoice == TestnetInvoice(Len(invoices) + 1, amount, currency, gen.out, now)
       IN /\ SetWallet(gen.W)
          /\ generated' = Append(generated, gen.out)
          /\ invoices' = Append(invoices, invoice)
          /\ ret' = Returned("create_invoice", invoice)
    /\ UNCHANGED <<chain, pending_transactions, mempool, balances, queue, now, next_tx,
                   worker, deliveries, threads, request_log>>

\* TestnetPaymentProcessor.monitor_payments, as an action
MonitorPayments(invoice_id, op) ==
    /\ IF invoice_id \notin InvoiceIds
       THEN /\ ret' = Returned(op, [error |-> "Invoice not found"])
            /\ UNCHANGED <<invoices, queue, threads, request_log>>
       ELSE LET r == monitor_payments(Ledger, queue, invoices[invoice_id], now)
            IN /\ invoices' = [invoices EXCEPT ![invoice_id] = r.invoice]
               /\ queue' = r.queue
               /\ ret' = Returned(op, r.invoice)
    /\ UNCHANGED <<chain, pending_transactions, mempool, balances, address_counter,
                   addresses, now, next_tx, worker, deliveries, generated, threads,
                   request_log>>

\* TestnetPaymentProcessor.get_invoice_status
GetInvoiceStatus(invoice_id) == MonitorPayments(invoice_id, "get_invoice_status")

\* a variant of create_refund that marks the invoice as refunded when the
\* refund is sent
CreateRefund_marking_invoice(invoice_id, refund_address, amount) ==
    LET err == create_refund_error(invoice_id, amount)
    IN IF err # ""
       THEN /\ ret' = Returned("create_refund", [error |-> err])
            /\ UNCHANGED <<chain, pending_transactions, mempool, balances, address_counter,
                           addresses, invoices, queue, now, next_tx, worker, deliveries,
                           generated, threads, request_log>>
       ELSE /\ LET r == refund_transfer(Ledger, Wallet, refund_address, amount, next_tx + 1, now)
               IN /\ SetLedger(r.L)
                  /\ SetWallet(r.W)
                  /\ next_tx' = next_tx + r.used
                  /\ generated' = Append(generated, r.merchant_address)
                  /\ ret' = Returned("create_refund",
                                      IF r.out
                                      THEN [success |-> TRUE, invoice_id |-> invoice_id,
                                            refund_address |-> refund_address,
                                            amount |-> amount]
                                      ELSE [success |-> FALSE,
                                            error |-> "Failed to send refund transaction."])
                  /\ invoices' = IF r.out
                                 THEN [invoices EXCEPT ![invoice_id].status = "refunded"]
                                 ELSE invoices
            /\ UNCHANGED <<queue, now, worker, deliveries, threads, request_log>>

\* TestnetPaymentProcessor.create_refund
CreateRefund(invoice_id, refund_address, amount) ==
    LET err == create_refund_error(invoice_id, amount)
    IN IF err # ""
       THEN /\ ret' = Returned("create_refund", [error |-> err])
            /\ UNCHANGED <<chain, pending_transactions, mempool, balances, address_counter,
                           addresses, invoices, queue, now, next_tx, worker, deliveries,
                           generated, threads, request_log>>
       ELSE /\ LET r == refund_transfer(Ledger, Wallet, refund_address, amount, next_tx + 1, now)
               IN /\ SetLedger(r.L)
                  /\ SetWallet(r.W)
                  /\ next_tx' = next_tx + r.used
                  /\ generated' = Append(generated, r.merchant_address)
                  /\ ret' = Returned("create_refund",
                                      IF r.out
                                      THEN [success |-> TRUE, invoice_id |-> invoice_id,
                                            refund_address |-> refund_address,
                                            amount |-> amount]
                                      ELSE [success |-> FALSE,
                                            error |-> "Failed to send refund transaction."])
            /\ UNCHANGED <<invoices, queue, now, worker, deliveries, threads, request_log>>

\* TestnetPaymentProcessor.check_for_expired_invoices
CheckForExpiredInvoices ==
    /\ invoices' = check_for_expired_invoices(invoices, now)
    /\ ret' = Returned("check_for_expired_invoices", None)
    /\ UNCHANGED <<chain, pending_transactions, mempool, balances, address_counter,
                   addresses, queue, now, next_tx, worker, deliveries, generated, threads,
                   request_log>>

\* a caller calls processor.watch_mempool; the list it returns is the field
\* transactions of the returned record
WatchMempool(address) ==
    /\ ret' = Returned("watch_mempool", [transactions |-> watch_mempool(Ledger, address)])
    /\ UNCHANGED <<chain, pending_transactions, mempool, balances, address_counter,
                   addresses, invoices, queue, now, next_tx, worker, deliveries, generated,
                   threads, request_log>>

\* the wall clock advances by d seconds between calls
TickBy(d) ==
    /\ now' = now + d
    /\ UNCHANGED <<chain, pending_transactions, mempool, balances, address_counter,
                   addresses, invoices, queue, next_tx, worker, deliveries, generated, ret,
                   threads, request_log>>

\* the wall clock advances by one invoice lifetime
Tick == TickBy(TickStep)


\* api.create_testnet_invoice on a request from client key with body data.
\* An exception that leaves the view is returned as [exception |-> name].
CreateTestnetInvoice(key, data) ==
    LET swept == check_for_expired_invoices(invoices, now)
        limit == check_rate_limit(request_log, key, now)
    IN /\ request_log' = limit.log
       /\ IF ~limit.out
          THEN /\ invoices' = swept
               /\ ret' = Returned("create_testnet_invoice",
                                  Response([error |-> "Rate limit exceeded for invoice creation."],
                                           429))
               /\ UNCHANGED <<address_counter, addresses, generated>>
          ELSE IF "amount" \notin DOMAIN data \/ "currency" \notin DOMAIN data
          THEN /\ invoices' = swept
               /\ ret' = Returned("create_testnet_invoice",
                                  Response([error |-> "Both 'amount' and 'currency' are required."],
                                           400))
               /\ UNCHANGED <<address_counter, addresses, generated>>
          ELSE IF data.amount <= 0
          THEN /\ invoices' = swept
               /\ ret' = Returned("create_testnet_invoice",
                                  Response([error |-> "Invalid 'amount' value."], 400))
               /\ UNCHANGED <<address_counter, addresses, generated>>
          ELSE IF ~call_binds(create_invoice_keywords, create_invoice_parameters)
          THEN /\ invoices' = swept
               /\ ret' = Returned("create_testnet_invoice", [exception |-> "TypeError"])
               /\ UNCHANGED <<address_counter, addresses, generated>>
          ELSE LET gen == generate_address(Wallet)
                   invoice == TestnetInvoice(Len(swept) + 1, data.amount, data.currency,
                                             gen.out, now)
               IN /\ SetWallet(gen.W)
                  /\ generated' = Append(generated, gen.out)
                  /\ invoices' = Append(swept, invoice)
                  /\ ret' = Returned("create_testnet_invoice", Response(invoice, 201))
       /\ UNCHANGED <<chain, pending_transactions, mempool, balances, queue, now, next_tx,
                      worker, deliveries, threads>>

----------------------------------------------------------------------------
(* Request threads, statement by statement *)

\* thread t moves to statement pc
Goto(t, pc) == threads' = [threads EXCEPT ![t].pc = pc]

\* thread t returns out from its call of op
Return(t, op, out) ==
    /\ ret' = Returned(op, out)
    /\ threads' = [threads EXCEPT ![t] = IdleThread]

\* no thread is inside a call
AllIdle == \A t \in Threads : threads[t] = IdleThread

\* get_invoice_status -> monitor_payments: the lookup of the invoice
MonitorCall(t, invoice_id) ==
    /\ threads[t].pc = "idle"
    /\ IF invoice_id \notin InvoiceIds
       THEN Return(t, "get_invoice_status", [error |-> "Invoice not found"])
       ELSE /\ threads' = [threads EXCEPT ![t].pc = "monitor_terminal",
                                          ![t].invoice_id = invoice_id]
            /\ UNCHANGED ret
    /\ UNCHANGED <<chain, pending_transactions, mempool, balances, address_counter,
                   addresses, invoices, queue, now, next_tx, worker, deliveries, generated,
                   request_log>>

\* monitor_payments: the test of a settled status
MonitorTestTerminal(t) ==
    /\ threads[t].pc = "monitor_terminal"
    /\ LET invoice == invoices[threads[t].invoice_id]
       IN IF is_terminal(invoice)
          THEN Return(t, "get_invoice_status", invoice)
          ELSE Goto(t, "monitor_expiry") /\ UNCHANGED ret
    /\ UNCHANGED <<chain, pending_transactions, mempool, balances, address_counter,
                   addresses, invoices, queue, now, next_tx, worker, deliveries, generated,
                   request_log>>

\* monitor_payments: the test of the deadline
MonitorTestExpiry(t) ==
    /\ threads[t].pc = "monitor_expiry"
    /\ LET i == threads[t].invoice_id
       IN IF now > invoices[i].expires_at
          THEN /\ invoices' = [invoices EXCEPT ![i].status = "expired"]
               /\ Return(t, "get_invoice_status", invoices'[i])
          ELSE /\ Goto(t, "monitor_scan")
               /\ UNCHANGED <<invoices, ret, request_log>>
    /\ UNCHANGED <<chain, pending_transactions, mempool, balances, address_counter,
                   addresses, queue, now, next_tx, worker, deliveries, generated,
                   request_log>>

\* monitor_payments: the scan of the chain into the local current_paid_amount
MonitorScan(t) ==
    /\ threads[t].pc = "monitor_scan"
    /\ threads' = [threads EXCEPT
                       ![t].pc = "monitor_update",
                       ![t].current_paid_amount =
                           current_paid_amount(Ledger, invoices[threads[t].invoice_id])]
    /\ UNCHANGED <<chain, pending_transactions, mempool, balances, address_counter,
                   addresses, invoices, queue, now, next_tx, worker, deliveries, generated,
                   ret, request_log>>

\* monitor_payments: the update of paid_amount
MonitorUpdate(t) ==
    /\ threads[t].pc = "monitor_update"
    /\ LET i == threads[t].invoice_id
       IN invoices' = IF threads[t].current_paid_amount > invoices[i].paid_amount
                      THEN [invoices EXCEPT ![i].paid_amount = threads[t].current_paid_amount]
                      ELSE invoices
    /\ Goto(t, "monitor_settle")
    /\ UNCHANGED <<chain, pending_transactions, mempool, balances, address_counter,
                   addresses, queue, now, next_tx, worker, deliveries, generated, ret,
                   request_log>>

\* monitor_payments: the test of the paid amount and the transition to paid
MonitorSettle(t) ==
    /\ threads[t].pc = "monitor_settle"
    /\ LET i == threads[t].invoice_id
       IN IF invoices[i].paid_amount >= invoices[i].amount
          THEN /\ invoices' = [invoices EXCEPT ![i].status = "paid"]
               /\ Goto(t, "monitor_webhook")
               /\ UNCHANGED ret
          ELSE /\ Return(t, "get_invoice_status", invoices[i])
               /\ UNCHANGED invoices
    /\ UNCHANGED <<chain, pending_transactions, mempool, balances, address_counter,
                   addresses, queue, now, next_tx, worker, deliveries, generated,
                   request_log>>

\* monitor_payments: the add_webhook call and the return
MonitorWebhook(t) ==
    /\ threads[t].pc = "monitor_webhook"
    /\ LET invoice == invoices[threads[t].invoice_id]
       IN /\ queue' = add_webhook(queue, WebhookUrl, invoice, now)
          /\ Return(t, "get_invoice_status", invoice)
    /\ UNCHANGED <<chain, pending_transactions, mempool, balances, address_counter,
                   addresses, invoices, now, next_tx, worker, deliveries, generated,
                   request_log>>

\* add_transaction: the call.  The caller has built the Transaction object;
\* its identity is drawn when it is admitted (a rejected object is stored
\* nowhere)
AddCall(t, sender, recipient, amount) ==
    /\ threads[t].pc = "idle"
    /\ threads' = [threads EXCEPT
                       ![t].pc = "add_test",
                       ![t].transaction = Transaction(0, sender, recipient, amount,
                                                      NoTxId, 0, now)]
    /\ UNCHANGED <<chain, pending_transactions, mempool, balances, address_counter,
                   addresses, invoices, queue, now, next_tx, worker, deliveries, generated,
                   ret, request_log>>

\* add_transaction: the tests of the amount and of the sender's balance
AddTest(t) ==
    /\ threads[t].pc = "add_test"
    /\ LET tx == threads[t].transaction
       IN IF add_transaction_accepts(Ledger, tx)
          THEN /\ threads' = [threads EXCEPT
                                  ![t].pc = "add_pending",
                                  ![t].transaction =
                                      Transaction(next_tx + 1, tx.sender, tx.recipient,
                                                  tx.amount, NoTxId, tx.fee, tx.timestamp)]
               /\ next_tx' = next_tx + 1
               /\ UNCHANGED ret
          ELSE /\ Return(t, "add_transaction", [ok |-> FALSE])
               /\ UNCHANGED next_tx
    /\ UNCHANGED <<chain, pending_transactions, mempool, balances, address_counter,
                   addresses, invoices, queue, now, worker, deliveries, generated,
                   request_log>>

\* add_transaction: pending_transactions.append(transaction)
AddPending(t) ==
    /\ threads[t].pc = "add_pending"
    /\ pending_transactions' = Append(pending_transactions, threads[t].transaction)
    /\ Goto(t, "add_mempool")
    /\ UNCHANGED <<chain, mempool, balances, address_counter, addresses, invoices, queue,
                   now, next_tx, worker, deliveries, generated, ret, request_log>>

\* add_transaction: mempool.append(transaction) and return True
AddMempool(t) ==
    /\ threads[t].pc = "add_mempool"
    /\ mempool' = Append(mempool, threads[t].transaction)
    /\ Return(t, "add_transaction", [ok |-> TRUE])
    /\ UNCHANGED <<chain, pending_transactions, balances, address_counter, addresses,
                   invoices, queue, now, next_tx, worker, deliveries, generated,
                   request_log>>

\* mine_block: the call and the test of an empty pending list
MineCall(t) ==
    /\ threads[t].pc = "idle"
    /\ IF pending_transactions = <<>>
       THEN Return(t, "mine_block", None)
       ELSE Goto(t, "mine_collect") /\ UNCHANGED ret
    /\ UNCHANGED <<chain, pending_transactions, mempool, balances, address_counter,
                   addresses, invoices, queue, now, next_tx, worker, deliveries, generated,
                   request_log>>

\* the transaction object tx, wherever the sequence holds it, after the loop
\* of mine_block has set its amount_with_fee
Finalized(txs, tx) ==
    [j \in 1..Len(txs) |-> IF txs[j].obj = tx.obj THEN FinalizeFee(txs[j]) ELSE txs[j]]

\* mine_block: one iteration of the loop over pending_transactions, which
\* sets amount_with_fee on the object and appends it to transactions_to_mine;
\* the loop ends when the list, as it is by then, is exhausted
MineCollect(t) ==
    /\ threads[t].pc = "mine_collect"
    /\ LET k == Len(threads[t].transactions_to_mine) + 1
       IN IF k <= Len(pending_transactions)
          THEN LET tx == pending_transactions[k]
               IN /\ pending_transactions' = Finalized(pending_transactions, tx)
                  /\ mempool' = Finalized(mempool, tx)
                  /\ threads' = [threads EXCEPT
                                     ![t].transactions_to_mine = Append(@, FinalizeFee(tx))]
          ELSE /\ Goto(t, "mine_build")
               /\ UNCHANGED <<pending_transactions, mempool, request_log>>
    /\ UNCHANGED <<chain, balances, address_counter, addresses, invoices, queue, now,
                   next_tx, worker, deliveries, generated, ret, request_log>>

\* mine_block: the new Block and chain.append(new_block)
MineBuild(t) ==
    /\ threads[t].pc = "mine_build"
    /\ LET new_block == Block(Len(chain), now, threads[t].transactions_to_mine,
                              last_block(Ledger).hash, 0)
       IN /\ chain' = Append(chain, new_block)
          /\ threads' = [threads EXCEPT ![t].pc = "mine_update",
                                        ![t].new_block = new_block,
                                        ![t].updated = 0]
    /\ UNCHANGED <<pending_transactions, mempool, balances, address_counter, addresses,
                   invoices, queue, now, next_tx, worker, deliveries, generated, ret,
                   request_log>>

\* mine_block: _update_balances(new_block.transactions), one iteration of
\* its loop at a time
MineUpdate(t) ==
    /\ threads[t].pc = "mine_update"
    /\ LET txs == threads[t].new_block.transactions
           k == threads[t].updated + 1
       IN IF k <= Len(txs)
          THEN /\ balances' = UpdateBalance(balances, txs[k])
               /\ threads' = [threads EXCEPT ![t].updated = k]
          ELSE /\ Goto(t, "mine_clear")
               /\ UNCHANGED balances
    /\ UNCHANGED <<chain, pending_transactions, mempool, address_counter, addresses,
                   invoices, queue, now, next_tx, worker, deliveries, generated, ret,
                   request_log>>

\* mine_block: self.pending_transactions = []
MineClear(t) ==
    /\ threads[t].pc = "mine_clear"
    /\ pending_transactions' = <<>>
    /\ Goto(t, "mine_filter")
    /\ UNCHANGED <<chain, mempool, balances, address_counter, addresses, invoices, queue,
                   now, next_tx, worker, deliveries, generated, ret, request_log>>

\* mine_block: the list comprehension over self.mempool
MineFilter(t) ==
    /\ threads[t].pc = "mine_filter"
    /\ threads' = [threads EXCEPT
                       ![t].pc = "mine_rebind",
                       ![t].kept = SelectSeq(mempool,
                                       LAMBDA tx : ~IsMined(tx, threads[t].transactions_to_mine))]
    /\ UNCHANGED <<chain, pending_transactions, mempool, balances, address_counter,
                   addresses, invoices, queue, now, next_tx, worker, deliveries, generated,
                   ret, request_log>>

\* mine_block: the assignment of the filtered list to self.mempool, and the
\* return of the new block
MineRebind(t) ==
    /\ threads[t].pc = "mine_rebind"
    /\ mempool' = threads[t].kept
    /\ Return(t, "mine_block", threads[t].new_block)
    /\ UNCHANGED <<chain, pending_transactions, balances, address_counter, addresses,
                   invoices, queue, now, next_tx, worker, deliveries, generated,
                   request_log>>

----------------------------------------------------------------------------
(* Specifications *)

\* The processor with its wallet and ledger: invoices are created, payers
\* submit transactions to invoice addresses (left pending, or minted and
\* confirmed by the faucet), blocks are mined, statuses are read, refunds
\* are made, the sweep runs and the clock advances.
Next ==
    \/ /\ next_tx < MaxTx
       /\ \E i \in InvoiceIds, a \in PaymentAmountInputs :
              AddTransaction(Network, invoices[i].payment_address, a)
    \/ MineBlock
    \/ /\ next_tx < MaxTx
       /\ \E i \in InvoiceIds, a \in PaymentAmountInputs :
              Faucet(invoices[i].payment_address, a)
    \/ /\ Len(invoices) < MaxInvoices
       /\ address_counter < MaxAddr
       /\ \E a \in InvoiceAmountInputs : CreateInvoice(a, "TBTC")
    \/ \E i \in InvoiceIdInputs : GetInvoiceStatus(i)
    \/ \E i \in InvoiceIdInputs, a \in RefundAmountInputs :
           /\ create_refund_error(i, a) = "" => (next_tx + 2 <= MaxTx /\ address_counter < MaxAddr)
           /\ CreateRefund(i, ExternalAddress, a)
    \/ CheckForExpiredInvoices
    \/ (now < MaxTicks * TickStep /\ Tick)

Spec == Init /\ [][Next]_vars

\* The ledger on its own: callers add arbitrary transactions and mine blocks.
NextLedger ==
    \/ /\ next_tx < MaxTx
       /\ \E s \in LedgerAddressInputs \cup {Network}, r \in LedgerAddressInputs,
             a \in LedgerAmountInputs : AddTransaction(s, r, a)
    \/ MineBlock
    \/ (now < MaxTicks * TickStep /\ Tick)

SpecLedger == Init /\ [][NextLedger]_vars

\* Repeated refunds of one invoice: payments are faucet mints to the invoice
\* address, and the transaction budget leaves room for two refunds.
NextRefund ==
    \/ /\ next_tx < RefundTxBudget
       /\ \E i \in InvoiceIds, a \in PaymentAmountInputs :
              Faucet(invoices[i].payment_address, a)
    \/ /\ Len(invoices) < MaxInvoices
       /\ address_counter < MaxAddr
       /\ \E a \in InvoiceAmountInputs : CreateInvoice(a, "TBTC")
    \/ \E i \in InvoiceIdInputs : GetInvoiceStatus(i)
    \/ \E i \in InvoiceIdInputs, a \in RefundAmountInputs \cup DustAmountInputs :
           /\ create_refund_error(i, a) = "" =>
                  (next_tx + 2 <= RefundTxBudget /\ address_counter < MaxAddr)
           /\ CreateRefund(i, ExternalAddress, a)
    \/ MineBlock

SpecRefund == Init /\ [][NextRefund]_vars

\* The wallet on its ledger: callers generate addresses, mint with the
\* faucet, send funds between managed and unmanaged addresses, read balances
\* and mine blocks.
NextWallet ==
    \/ (address_counter < MaxAddr /\ GenerateAddress)
    \/ /\ next_tx < MaxTx
       /\ \E a \in WalletAddressInputs, m \in FaucetAmountInputs : Faucet(a, m)
    \/ /\ next_tx < MaxTx
       /\ \E s \in WalletAddressInputs, r \in WalletAddressInputs, m \in WalletAmountInputs :
              SendFunds(s, r, m)
    \/ \E a \in WalletAddressInputs : WalletGetBalance(a)
    \/ MineBlock

SpecWallet == Init /\ [][NextWallet]_vars

\* Payment proofs: callers submit network payments whose tx_id they supply
\* or leave to be generated, mine blocks and ask for proofs by tx_id.
NextProof ==
    \/ /\ next_tx < MaxTx
       /\ \E a \in PaymentAmountInputs, tx_id \in TxIdInputs :
              AddTransactionWithId(Network, WalletAddress(0), a, tx_id)
    \/ MineBlock
    \/ \E tx_id \in ProofIdInputs : GeneratePaymentProof(tx_id)

SpecProof == Init /\ [][NextProof]_vars

\* the clock of the webhook specifications advances by the shortest retry delay
WebhookTickStep == retry_delays[1]

\* the payload {"invoice_id": k} a caller hands to add_webhook
WebhookPayload(k) == [invoice_id |-> k]

\* the task carrying payload k is in the queue or in the hands of the worker
Live(k) ==
    \/ \E i \in 1..Len(queue) : queue[i].payload = WebhookPayload(k)
    \/ (worker # None /\ worker.payload = WebhookPayload(k))

\* the number of _send_webhook calls made for payload k
Attempts(k) ==
    Cardinality({i \in 1..Len(deliveries) : deliveries[i].payload = WebhookPayload(k)})

\* callers enqueue each payload once, in order
NotYetEnqueued(k) ==
    /\ ~Live(k)
    /\ Attempts(k) = 0
    /\ \A j \in 1..(k - 1) : Live(j) \/ Attempts(j) > 0

\* some task is scheduled for a later time
SomeTaskWaits ==
    \/ \E i \in 1..Len(queue) : queue[i].next_attempt_time > now
    \/ (worker # None /\ worker.next_attempt_time > now)

\* the clock of the webhook specifications: it runs while callers may still
\* enqueue and for as long as a task waits for its next attempt
WebhookTick ==
    /\ now < MaxTicks * WebhookTickStep \/ SomeTaskWaits
    /\ TickBy(WebhookTickStep)

\* callers hand tasks to the queue
EnqueueWebhook ==
    \E k \in WebhookPayloadInputs, url \in WebhookUrlInputs :
        NotYetEnqueued(k) /\ AddWebhook(url, WebhookPayload(k))

\* The WebhookQueue with a transport that always fails.
NextWebhookFailing ==
    \/ EnqueueWebhook
    \/ WorkerGet
    \/ WorkerProcess(FALSE)
    \/ WebhookTick

SpecWebhookFailing == Init /\ [][NextWebhookFailing]_vars

\* the delivery thread runs the loop body; _send_webhook succeeds or fails
WorkerDeliver == \E success \in BOOLEAN : WorkerProcess(success)

\* The WebhookQueue with the simulated transport (random.choice of success
\* and failure), a worker thread that keeps running and a clock that advances.
NextWebhook ==
    \/ EnqueueWebhook
    \/ WorkerGet
    \/ WorkerDeliver
    \/ WebhookTick

SpecWebhookFair ==
    /\ Init
    /\ [][NextWebhook]_vars
    /\ WF_vars(WorkerGet)
    /\ WF_vars(WorkerDeliver)
    /\ WF_vars(WebhookTick)

\* The WebhookQueue with a transport that fails either way: _send_webhook
\* returns False or raises.
NextWebhookRaising ==
    \/ EnqueueWebhook
    \/ WorkerGet
    \/ WorkerProcess(FALSE)
    \/ WorkerRaise
    \/ WebhookTick

SpecWebhookRaising == Init /\ [][NextWebhookRaising]_vars

----------------------------------------------------------------------------
(* Properties *)

\* every block after the genesis block links to its predecessor
ChainLinked ==
    /\ Len(chain) >= 1
    /\ chain[1].index = 0
    /\ chain[1].previous_hash = GenesisPreviousHash
    /\ chain[1].transactions = <<>>
    /\ \A i \in 2..Len(chain) :
           /\ chain[i].previous_hash = chain[i - 1].hash
           /\ chain[i].index = i - 1

\* a step keeps every block of the chain in place
ChainAppendOnly ==
    /\ Len(chain') >= Len(chain)
    /\ SubSeq(chain', 1, Len(chain)) = chain

\* C1: after any sequence of add_transaction and mine_block calls, block 0 is
\* the genesis block (previous_hash "0", no transactions), every later block
\* at position i has index i and previous_hash equal to the hash of block
\* i-1, and no step modifies, reorders or removes a block already in the chain.
C1_ChainLinkedAppendOnly == [](ChainLinked) /\ [][ChainAppendOnly]_vars

\* C1 witness: two blocks have been mined on top of the genesis block
C1_Witness ==
    /\ Len(chain) >= 3
    /\ ret.op = "mine_block"
    /\ ret.out = chain[Len(chain)]

\* C2: after any sequence of add_transaction and mine_block calls,
\* get_balance(a) >= 0 for every address a.
C2_BalancesNeverNegative ==
    \A a \in LedgerAddressInputs \cup DOMAIN balances : get_balance(Ledger, a) >= 0

\* the amounts of the confirmed transactions of one block received by an address
RECURSIVE ReceivedIn(_, _)
ReceivedIn(txs, address) ==
    IF txs = <<>> THEN 0
    ELSE (IF Head(txs).recipient = address THEN Head(txs).amount ELSE 0)
         + ReceivedIn(Tail(txs), address)

\* the sum of the amounts of all confirmed transactions whose recipient is the address
RECURSIVE ReceivedUpTo(_, _, _)
ReceivedUpTo(ch, n, address) ==
    IF n = 0 THEN 0
    ELSE ReceivedUpTo(ch, n - 1, address) + ReceivedIn(ch[n].transactions, address)

ConfirmedReceived(address) == ReceivedUpTo(chain, Len(chain), address)

\* the number of webhook tasks enqueued for an invoice
WebhookCount(q, invoice_id) ==
    Cardinality({k \in 1..Len(q) : q[k].payload.invoice_id = invoice_id})

\* one step changes the status of no settled invoice, and moves a pending
\* invoice to paid or expired only
StatusStep ==
    \A i \in InvoiceIds :
        /\ i \in 1..Len(invoices')
        /\ invoices[i].status \in {"paid", "expired"}
               => invoices'[i].status = invoices[i].status
        /\ invoices'[i].status # invoices[i].status
               => invoices[i].status = "pending" /\ invoices'[i].status \in {"paid", "expired"}

\* C3: an invoice's status only ever changes pending->paid or
\* pending->expired; once paid or expired, no monitor_payments,
\* get_invoice_status, check_for_expired_invoices, create_refund, payment,
\* mined block or clock advance changes it again.
C3_StatusTerminal == [][StatusStep]_vars

\* C3 witness: an invoice expired, payments reaching its amount were
\* confirmed afterwards, and a status read still returned expired
C3_Witness ==
    \E i \in InvoiceIds :
        /\ ret.op = "get_invoice_status"
        /\ ret.out = invoices[i]
        /\ invoices[i].status = "expired"
        /\ ConfirmedReceived(invoices[i].payment_address) >= invoices[i].amount

\* in every state an invoice has one webhook task if it is paid and none otherwise,
\* and the task carries the paid invoice
OneWebhookIffPaid ==
    \A i \in InvoiceIds :
        /\ WebhookCount(queue, i) = (IF invoices[i].status = "paid" THEN 1 ELSE 0)
        /\ \A k \in 1..Len(queue) :
               queue[k].payload.invoice_id = i => queue[k].payload = invoices[i]

\* a step leaves a paid invoice's paid_amount and its webhook task alone
PaidStep ==
    \A i \in InvoiceIds :
        invoices[i].status = "paid"
            => /\ invoices'[i].paid_amount = invoices[i].paid_amount
               /\ WebhookCount(queue', i) = WebhookCount(queue, i)

\* C4: exactly one webhook is enqueued for an invoice, at the call in which
\* it becomes paid; later status reads, even after more confirmed payments,
\* enqueue nothing and leave paid_amount unchanged; no webhook is enqueued
\* for a pending or expired invoice.
C4_OneWebhookPerSettlement == [](OneWebhookIffPaid) /\ [][PaidStep]_vars

\* C4 witness: a paid invoice received a further confirmed payment and its
\* status was read again, with one webhook task in the queue
C4_Witness ==
    \E i \in InvoiceIds :
        /\ ret.op = "get_invoice_status"
        /\ ret.out = invoices[i]
        /\ invoices[i].status = "paid"
        /\ ConfirmedReceived(invoices[i].payment_address) > invoices[i].paid_amount
        /\ WebhookCount(queue, i) = 1

\* a step lowers no invoice's paid_amount
PaidAmountStep ==
    \A i \in InvoiceIds : invoices'[i].paid_amount >= invoices[i].paid_amount

\* C5: paid_amount of an invoice never decreases across monitor_payments,
\* get_invoice_status, check_for_expired_invoices and create_refund calls
\* interleaved with ledger operations.
C5_PaidAmountMonotonic == [][PaidAmountStep]_vars

\* C5 witness: a partially paid invoice expired at a sweep and kept its paid_amount
C5_Witness ==
    \E i \in InvoiceIds :
        /\ ret.op = "check_for_expired_invoices"
        /\ invoices[i].status = "expired"
        /\ invoices[i].paid_amount > 0

\* the step is a get_invoice_status call on invoice i
StatusRead(i) == ret'.op = "get_invoice_status" /\ GetInvoiceStatus(i)

\* the invoice is pending and its deadline has not passed
IsOpen(invoice) == invoice.status = "pending" /\ now <= invoice.expires_at

\* a status read of an open invoice with a positive amount returns the
\* confirmed receipts and the status they imply
OpenReadStep ==
    \A i \in InvoiceIds :
        (IsOpen(invoices[i]) /\ invoices[i].amount > 0 /\ StatusRead(i))
            => LET S == ConfirmedReceived(invoices[i].payment_address)
               IN /\ ret'.out.paid_amount = S
                  /\ ret'.out.status = (IF S >= invoices[i].amount THEN "paid" ELSE "pending")

\* C6: for a pending invoice with amount A > 0 read while now <= expires_at,
\* get_invoice_status returns paid_amount = S, the sum of the amounts of the
\* confirmed transactions whose recipient is its payment_address, and status
\* paid iff S >= A (else pending); unconfirmed transactions contribute nothing.
C6_OpenReadReturnsConfirmedSum == [][OpenReadStep]_vars

\* C6 witness: a status read returned pending with a partial paid_amount
\* while a further payment to the address was still unconfirmed
C6_Witness ==
    \E i \in InvoiceIds :
        /\ ret.op = "get_invoice_status"
        /\ ret.out = invoices[i]
        /\ invoices[i].status = "pending"
        /\ invoices[i].paid_amount > 0
        /\ \E k \in 1..Len(pending_transactions) :
               pending_transactions[k].recipient = invoices[i].payment_address

\* every status read returns the confirmed receipts of the invoice's address
AnyReadStep ==
    \A i \in InvoiceIds :
        StatusRead(i)
            => ret'.out.paid_amount = ConfirmedReceived(invoices[i].payment_address)

\* C7 as stated: for every invoice, in every state, the paid_amount returned
\* by get_invoice_status equals the sum of the amounts of all transactions
\* confirmed at the time of the call whose recipient is its payment_address.
C7_ReadNeverStale == [][AnyReadStep]_vars

\* a status read returns the confirmed receipts for an open invoice, and the
\* paid_amount recorded before the call otherwise
FreshWhileOpenStep ==
    \A i \in InvoiceIds :
        StatusRead(i)
            => LET S == ConfirmedReceived(invoices[i].payment_address)
               IN IF IsOpen(invoices[i])
                  THEN ret'.out.paid_amount = S
                  ELSE /\ ret'.out.paid_amount = invoices[i].paid_amount
                       /\ invoices[i].paid_amount <= S

\* C7 amended: the paid_amount returned by get_invoice_status equals the sum
\* of the confirmed receipts of the payment_address when the invoice is
\* pending and now <= expires_at at the call; for an invoice that is already
\* paid or expired, or that expires at this call, it is the paid_amount
\* recorded before the call, which is at most that sum.
C7_ReadFreshWhileOpen == [][FreshWhileOpenStep]_vars

\* C7 witness: a status read of a settled invoice returned less than the
\* confirmed receipts of its address
C7_Witness ==
    \E i \in InvoiceIds :
        /\ ret.op = "get_invoice_status"
        /\ ret.out = invoices[i]
        /\ ret.out.status \in {"paid", "expired"}
        /\ ret.out.paid_amount < ConfirmedReceived(invoices[i].payment_address)

\* what the sweep makes of one invoice
Swept(invoice) ==
    IF invoice.status = "pending" /\ now > invoice.expires_at
    THEN [invoice EXCEPT !.status = "expired"]
    ELSE invoice

\* expiry happens at the first read or sweep after the deadline and never before
ExpiryStep ==
    /\ \A i \in InvoiceIds :
           (invoices[i].status = "pending" /\ now > invoices[i].expires_at
                /\ StatusRead(i))
               => invoices'[i].status = "expired"
    /\ CheckForExpiredInvoices
           => /\ Len(invoices') = Len(invoices)
              /\ \A i \in InvoiceIds : invoices'[i] = Swept(invoices[i])
              /\ UNCHANGED <<chain, pending_transactions, mempool, balances,
                             address_counter, addresses, queue, now, next_tx>>
    /\ \A i \in InvoiceIds :
           (invoices[i].status = "pending" /\ invoices'[i].status = "expired")
               => now > invoices[i].expires_at
    /\ \A i \in 1..Len(invoices') :
           invoices'[i].expires_at = invoices'[i].created_at + InvoiceLifetime

\* C8: an invoice still pending when now > expires_at (= created_at + 3600)
\* becomes expired at the next get_invoice_status/monitor_payments call on it
\* or at the next sweep; neither expires an invoice while now <= expires_at,
\* and the sweep changes nothing but the status of pending invoices past
\* their expires_at.
C8_ExpiryAtDeadline == [][ExpiryStep]_vars

\* C8 witness: the sweep ran after the deadline of an unpaid invoice, which is expired
C8_Witness ==
    \E i \in InvoiceIds :
        /\ ret.op = "check_for_expired_invoices"
        /\ invoices[i].status = "expired"
        /\ invoices[i].paid_amount = 0
        /\ now > invoices[i].expires_at

\* the step is a create_refund call on invoice i for amount a
Refund(i, a) == ret'.op = "create_refund" /\ CreateRefund(i, ExternalAddress, a)

\* the last call was a create_refund on invoice i that returned success
RefundSucceeded(i) ==
    /\ ret.op = "create_refund"
    /\ "success" \in DOMAIN ret.out
    /\ ret.out.success
    /\ ret.out.invoice_id = i

LedgerUnchanged == UNCHANGED <<chain, pending_transactions, mempool, balances>>

\* a refund that would take the refunded total over paid_amount is refused
OverRefundStep ==
    \A i \in InvoiceIds, a \in RefundAmountInputs :
        (/\ RefundSucceeded(i)
         /\ invoices[i].status = "paid"
         /\ ret.out.amount + a > invoices[i].paid_amount
         /\ Refund(i, a))
            => /\ "error" \in DOMAIN ret'.out
               /\ "success" \in DOMAIN ret'.out => ~ret'.out.success
               /\ LedgerUnchanged

\* C9: for a paid invoice, once create_refund has succeeded for r1, a further
\* create_refund for r2 with r1 + r2 > paid_amount returns a structured error
\* and moves no funds (no transaction is added, no block is mined).
C9_OverRefundRejected == [][OverRefundStep]_vars

\* the validation of create_refund decides between an error that changes
\* nothing and the refund transfer
RefundValidationStep ==
    \A i \in InvoiceIdInputs, a \in RefundAmountInputs :
        Refund(i, a)
            => IF \/ i \notin InvoiceIds
                  \/ invoices[i].status # "paid"
                  \/ a <= 0
                  \/ a > invoices[i].paid_amount
               THEN /\ DOMAIN ret'.out = {"error"}
                    /\ UNCHANGED <<chain, pending_transactions, mempool, balances,
                                   address_counter, addresses, invoices, queue, now,
                                   next_tx>>
               ELSE /\ "success" \in DOMAIN ret'.out
                    /\ address_counter' = address_counter + 1

\* C10: create_refund returns a structured error when the invoice id is
\* unknown, when the invoice is pending or expired, or when amount <= 0 or
\* amount > paid_amount, and then changes no state (no address generated, no
\* faucet transaction, no block, nothing pending); amount == paid_amount
\* passes this validation.
C10_RefundValidation == [][RefundValidationStep]_vars

\* C10 witness: create_refund on a paid invoice returned the amount error
C10_Witness ==
    /\ ret.op = "create_refund"
    /\ ret.out = [error |-> "Invalid refund amount."]
    /\ \E i \in InvoiceIds : invoices[i].status = "paid"

----------------------------------------------------------------------------
(* Wallet and ledger contracts *)

\* a step that is a call send_funds(s, r, m)
SendStep(s, r, m) == ret'.op = "send_funds" /\ SendFunds(s, r, m)

\* the fee send_funds estimates
SendFee == calculate_fee(TransactionSizeBytes * Coin)

\* exactly one transaction s -> r of amount m was appended to pending_transactions
OneAppended(s, r, m) ==
    /\ Len(pending_transactions') = Len(pending_transactions) + 1
    /\ SubSeq(pending_transactions', 1, Len(pending_transactions)) = pending_transactions
    /\ LET tx == pending_transactions'[Len(pending_transactions')]
       IN tx.sender = s /\ tx.recipient = r /\ tx.amount = m

SendFundsStep ==
    \A s \in WalletAddressInputs, r \in WalletAddressInputs, m \in WalletAmountInputs :
        SendStep(s, r, m) =>
            /\ (s \notin addresses \/ get_balance(Ledger, s) < m + SendFee)
                   => ret'.out = [ok |-> FALSE]
            /\ ret'.out = [ok |-> FALSE] => LedgerUnchanged
            /\ ret'.out = [ok |-> TRUE] => OneAppended(s, r, m)

\* C11: send_funds(sender, recipient, amount) returns false whenever the
\* sender is not one of the wallet's addresses or its confirmed balance is
\* below amount plus the fee; every false return leaves balances,
\* pending_transactions, mempool and chain as they were; it returns true only
\* if exactly one transaction sender -> recipient of that amount was appended
\* to pending_transactions.
C11_SendFundsContract == [][SendFundsStep]_vars

\* C11 witness: send_funds has just returned false while a transfer it
\* accepted earlier is still pending
C11_Witness ==
    /\ ret.op = "send_funds"
    /\ ret.out = [ok |-> FALSE]
    /\ \E k \in 1..Len(pending_transactions) : pending_transactions[k].sender # Network

\* a step that is a call add_transaction(Transaction(s, r, a))
AddStep(s, r, a) == ret'.op = "add_transaction" /\ AddTransaction(s, r, a)

\* the same transaction s -> r of amount a is the new last element of both
\* pending_transactions and mempool
AppendedToBoth(s, r, a) ==
    /\ Len(pending_transactions') = Len(pending_transactions) + 1
    /\ SubSeq(pending_transactions', 1, Len(pending_transactions)) = pending_transactions
    /\ Len(mempool') = Len(mempool) + 1
    /\ SubSeq(mempool', 1, Len(mempool)) = mempool
    /\ LET tx == pending_transactions'[Len(pending_transactions')]
       IN /\ tx.sender = s /\ tx.recipient = r /\ tx.amount = a
          /\ mempool'[Len(mempool')] = tx

AddTransactionStep ==
    \A s \in LedgerAddressInputs \cup {Network}, r \in LedgerAddressInputs,
       a \in LedgerAmountInputs :
        AddStep(s, r, a) =>
            IF a <= 0 \/ (s # Network /\ get_balance(Ledger, s) < a + calculate_fee(a))
            THEN ret'.out = [ok |-> FALSE] /\ LedgerUnchanged
            ELSE /\ ret'.out = [ok |-> TRUE]
                 /\ AppendedToBoth(s, r, a)
                 /\ UNCHANGED <<balances, chain>>

\* C12: add_transaction(tx) returns false and leaves pending_transactions,
\* mempool, balances and chain unchanged when tx.amount <= 0, or when the
\* sender is not "network" and its confirmed balance is below tx.amount +
\* calculate_fee(tx.amount); otherwise it returns true, appends tx to the end
\* of both pending_transactions and mempool, and leaves balances and chain
\* unchanged.
C12_AddTransactionContract == [][AddTransactionStep]_vars

\* C12 witness: add_transaction has just rejected a transaction while an
\* accepted one waits in pending_transactions and mempool and a block has
\* been mined
C12_Witness ==
    /\ ret.op = "add_transaction"
    /\ ret.out = [ok |-> FALSE]
    /\ pending_transactions # <<>>
    /\ mempool = pending_transactions
    /\ Len(chain) >= 2

\* a step that is a call of mine_block
MineStep == ret'.op = "mine_block" /\ MineBlock

\* what the transactions of a block take from an address ...
RECURSIVE Debits(_, _)
Debits(txs, a) ==
    IF txs = <<>> THEN 0
    ELSE (IF Head(txs).sender = a /\ a # Network THEN Head(txs).amount_with_fee ELSE 0)
         + Debits(Tail(txs), a)

\* ... and what they give to it
RECURSIVE Credits(_, _)
Credits(txs, a) ==
    IF txs = <<>> THEN 0
    ELSE (IF Head(txs).recipient = a THEN Head(txs).amount ELSE 0) + Credits(Tail(txs), a)

MineNonEmptyStep ==
    (MineStep /\ pending_transactions # <<>>) =>
        /\ Len(chain') = Len(chain) + 1
        /\ SubSeq(chain', 1, Len(chain)) = chain
        /\ LET new_block == chain'[Len(chain')]
               n == Len(pending_transactions)
           IN /\ ret'.out = new_block
              /\ new_block.previous_hash = chain[Len(chain)].hash
              /\ new_block.index = Len(chain)
              /\ Len(new_block.transactions) = n
              /\ \A k \in 1..n :
                     LET mined == new_block.transactions[k]
                         tx == pending_transactions[k]
                     IN /\ mined.obj = tx.obj /\ mined.tx_id = tx.tx_id
                        /\ mined.sender = tx.sender /\ mined.recipient = tx.recipient
                        /\ mined.amount = tx.amount
              /\ \A a \in LedgerAddressInputs \cup {Network} \cup DOMAIN balances' :
                     BalanceOf(balances', a) =
                         BalanceOf(balances, a) - Debits(new_block.transactions, a)
                                                + Credits(new_block.transactions, a)
              /\ pending_transactions' = <<>>
              /\ \A k \in 1..Len(mempool') : ~IsMined(mempool'[k], new_block.transactions)

\* C13: mine_block called with n > 0 pending transactions appends exactly one
\* block, linked to the previous last block, whose transactions are the n
\* pending transactions in admission order; for each of them the sender's
\* balance goes down by its amount_with_fee unless the sender is "network",
\* and the recipient's balance goes up by its amount; afterwards
\* pending_transactions is empty and no mined transaction is left in mempool.
C13_MineBlockContract == [][MineNonEmptyStep]_vars

\* C13 witness: the last call mined a block of at least two transactions, one
\* of them sent by an address other than "network"
C13_Witness ==
    /\ ret.op = "mine_block"
    /\ ret.out = chain[Len(chain)]
    /\ Len(chain) >= 2
    /\ Len(ret.out.transactions) >= 2
    /\ \E k \in 1..Len(ret.out.transactions) : ret.out.transactions[k].sender # Network

\* every block after the genesis block holds at least one transaction
NoEmptyBlocks == \A i \in 2..Len(chain) : chain[i].transactions # <<>>

MineEmptyStep ==
    (MineStep /\ pending_transactions = <<>>) => (ret'.out = None /\ LedgerUnchanged)

\* C14: mine_block called with no pending transactions returns none and
\* leaves chain, balances, pending_transactions and mempool unchanged; so
\* every block other than the genesis block holds at least one transaction.
C14_MineEmptyIsNoOp == [](NoEmptyBlocks) /\ [][MineEmptyStep]_vars

\* C14 witness: mine_block has just returned none on a chain that already
\* has a mined block
C14_Witness ==
    /\ ret = Returned("mine_block", None)
    /\ Len(chain) >= 2
    /\ pending_transactions = <<>>

\* a step that is a call generate_payment_proof(tx_id)
ProofStep(tx_id) == ret'.op = "generate_payment_proof" /\ GeneratePaymentProof(tx_id)

ProofRoundTripStep ==
    \A tx_id \in ProofIdInputs :
        ProofStep(tx_id) =>
            /\ LedgerUnchanged
            /\ \A i \in 1..Len(chain) : \A k \in 1..Len(chain[i].transactions) :
                   chain[i].transactions[k].tx_id = tx_id =>
                       /\ "block_hash" \in DOMAIN ret'.out
                       /\ ret'.out.block_hash = chain[i].hash
                       /\ ret'.out.block_index = chain[i].index
            /\ BlocksWithTxId(chain, tx_id) = {} => DOMAIN ret'.out = {"error"}

\* C15: for every confirmed transaction tx, whether its tx_id was generated
\* or supplied by the caller, generate_payment_proof(tx.tx_id) returns a proof
\* whose block_hash and block_index are those of the block that holds tx; for
\* an id of no confirmed transaction it returns an error object; in both
\* cases the ledger is unchanged.
C15_ProofRoundTrip == [][ProofRoundTripStep]_vars

\* a step that is a call of generate_address
GenerateStep == ret'.op = "generate_address" /\ GenerateAddress

GenerateAddressStep ==
    GenerateStep =>
        /\ address_counter' = address_counter + 1
        /\ ret'.out.address \in addresses'
        /\ \A i \in 1..Len(generated) : generated[i] # ret'.out.address

WalletGrowsStep ==
    /\ address_counter' >= address_counter
    /\ addresses \subseteq addresses'

\* C18: each generate_address call increases address_counter by exactly 1,
\* adds the returned address to addresses, and returns an address different
\* from every address an earlier generate_address call returned;
\* address_counter never decreases and addresses never loses an element
\* under generate_address, faucet, send_funds and get_balance.
C18_GenerateAddressFresh == [][GenerateAddressStep]_vars /\ [][WalletGrowsStep]_vars

\* C18 witness: the third address has just been generated in a wallet to
\* which the faucet has also admitted an address
C18_Witness ==
    /\ ret.op = "generate_address"
    /\ Len(generated) >= 3
    /\ ret.out.address = generated[Len(generated)]
    /\ ExternalAddress \in addresses

\* a step that is a call faucet(a, m)
FaucetStep(a, m) == ret'.op = "faucet" /\ Faucet(a, m)

FaucetMinesStep ==
    \A a \in WalletAddressInputs, m \in FaucetAmountInputs :
        (FaucetStep(a, m) /\ m > 0) =>
            /\ ret'.out = [ok |-> TRUE]
            /\ a \in addresses'
            /\ Len(chain') = Len(chain) + 1
            /\ LET newest == chain'[Len(chain')]
                   n == Len(pending_transactions)
               IN /\ Len(newest.transactions) = n + 1
                  /\ \A k \in 1..n : newest.transactions[k].obj = pending_transactions[k].obj
                  /\ newest.transactions[n + 1].sender = Network
                  /\ newest.transactions[n + 1].recipient = a
                  /\ newest.transactions[n + 1].amount = m
                  /\ wallet_get_balance(Ledger', Wallet', a) =
                         get_balance(Ledger, a) - Debits(newest.transactions, a)
                                                + Credits(newest.transactions, a)
                  /\ Credits(newest.transactions, a) >= m
            /\ pending_transactions' = <<>>

OnlyFaucetMinesStep ==
    ret'.op \in {"generate_address", "send_funds", "get_balance"} => chain' = chain

\* C19: when faucet(address, amount) with amount > 0 returns, it has returned
\* true, address is in the wallet's addresses, the network -> address
\* transaction is in the newest block of the chain (so get_balance(address)
\* includes amount), and pending_transactions is empty because every
\* transaction pending before the call was confirmed in that same block;
\* no other Wallet operation mines.
C19_FaucetConfirms == [][FaucetMinesStep]_vars /\ [][OnlyFaucetMinesStep]_vars

\* C19 witness: the faucet has just confirmed its transaction together with
\* a transfer that send_funds had left pending
C19_Witness ==
    /\ ret = Returned("faucet", [ok |-> TRUE])
    /\ pending_transactions = <<>>
    /\ LET newest == chain[Len(chain)]
       IN /\ Len(newest.transactions) >= 2
          /\ newest.transactions[1].sender # Network
          /\ newest.transactions[Len(newest.transactions)].sender = Network

\* C20: every transaction on the chain has amount_with_fee = amount + fee
\* when its sender is not "network", fee being the fee field it carries and
\* amount_with_fee what was deducted at mining, and amount_with_fee = amount
\* when its sender is "network"; in particular for transactions created by
\* send_funds.
C20_AmountWithFee ==
    \A i \in 1..Len(chain) : \A k \in 1..Len(chain[i].transactions) :
        LET tx == chain[i].transactions[k]
        IN IF tx.sender # Network
           THEN tx.amount_with_fee = tx.amount + tx.fee
           ELSE tx.amount_with_fee = tx.amount

----------------------------------------------------------------------------
(* Webhook delivery *)

\* the task carrying payload k was enqueued and is no longer in the queue
\* nor held by the worker
Gone(k) == ~Live(k) /\ Attempts(k) > 0

\* delivery attempts a task gets when every attempt fails: the first one
\* and one per entry of retry_delays
MaxAttempts == Len(retry_delays) + 1

\* a task that leaves the queue has had exactly n attempts
DroppedAfter(n) ==
    \A k \in WebhookPayloadInputs : (Live(k) /\ ~Live(k)') => Attempts(k)' = n

\* a task that is gone stays gone and is never attempted again
GoneForGood ==
    \A k \in WebhookPayloadInputs :
        Gone(k) => (Gone(k)' /\ Attempts(k)' = Attempts(k))

\* C16, as stated: with the default retry schedule and a transport that
\* always fails, a task enqueued by add_webhook gets exactly 3 delivery
\* attempts in total, is then dropped, and is never attempted again.
C16_ThreeAttempts ==
    /\ [](\A k \in WebhookPayloadInputs : Attempts(k) <= 3)
    /\ [][DroppedAfter(3)]_vars
    /\ [][GoneForGood]_vars

\* C16, amended: with the default retry schedule and a transport that always
\* fails, a task enqueued by add_webhook gets exactly 4 delivery attempts in
\* total (the first one and one retry per entry of retry_delays), is then
\* dropped, and is never attempted again.
C16_FourAttempts ==
    /\ [](\A k \in WebhookPayloadInputs : Attempts(k) <= MaxAttempts)
    /\ [][DroppedAfter(MaxAttempts)]_vars
    /\ [][GoneForGood]_vars

\* C16 witness: the first task was dropped after its last failed attempt,
\* made once the longest delay had passed
C16_Witness ==
    /\ Gone(1)
    /\ Attempts(1) = MaxAttempts
    /\ \A i \in 1..Len(deliveries) : ~deliveries[i].success
    /\ deliveries[Len(deliveries)].retry = Len(retry_delays)
    /\ now >= retry_delays[1] + retry_delays[2] + retry_delays[3]

\* every recorded success is the last attempt for its payload, and the task
\* is gone
SuccessIsFinal ==
    \A i \in 1..Len(deliveries) :
        deliveries[i].success =>
            /\ \A j \in (i + 1)..Len(deliveries) : deliveries[j].payload # deliveries[i].payload
            /\ \A k \in WebhookPayloadInputs :
                   deliveries[i].payload = WebhookPayload(k) => ~Live(k)

\* C17: with a worker that keeps running and a clock that advances, every
\* task enqueued eventually leaves the queue for good: after its first
\* successful delivery, or after at most len(retry_delays) + 1 failed
\* attempts; no task is retried forever and none is attempted again after a
\* successful delivery.
C17_WebhookLeavesQueue ==
    /\ \A k \in WebhookPayloadInputs : Live(k) ~> Gone(k)
    /\ [][GoneForGood]_vars
    /\ [](\A k \in WebhookPayloadInputs : Attempts(k) <= MaxAttempts)
    /\ [](SuccessIsFinal)

\* C17 witness: a task left the queue when its last retry succeeded, and
\* the queue is empty
C17_Witness ==
    /\ queue = <<>>
    /\ worker = None
    /\ \E i \in 1..Len(deliveries) :
           /\ deliveries[i].success
           /\ deliveries[i].retry = Len(retry_delays)
           /\ \E k \in WebhookPayloadInputs :
                  deliveries[i].payload = WebhookPayload(k) /\ Gone(k)

----------------------------------------------------------------------------
(* Total supply *)

\* the sum of the balances of a set of addresses
RECURSIVE SumBalances(_, _)
SumBalances(bal, as) ==
    IF as = {} THEN 0
    ELSE LET a == CHOOSE x \in as : TRUE
         IN bal[a] + SumBalances(bal, as \ {a})

\* the sum of all balances
TotalSupply(bal) == SumBalances(bal, DOMAIN bal)

\* what confirmed transactions add to the total supply: the amount of each
\* transaction sent by the network, minus the fee charged to each other sender
RECURSIVE NetMint(_)
NetMint(txs) ==
    IF txs = <<>> THEN 0
    ELSE (IF Head(txs).sender = Network
          THEN Head(txs).amount
          ELSE 0 - (Head(txs).amount_with_fee - Head(txs).amount))
         + NetMint(Tail(txs))

\* a step changes the total supply by what the transactions of the blocks it
\* appends mint and burn, and not at all when it appends no block
SupplyStep ==
    TotalSupply(balances')
        = TotalSupply(balances) + NetMint(ConfirmedFrom(chain', Len(chain) + 1))

\* C21: the sum of all balances changes only inside mine_block: it grows by
\* the amount of each confirmed transaction sent by the network and shrinks
\* by the fee charged to each confirmed transaction of another sender; no
\* other ledger or wallet operation changes it.
C21_SupplyChangesOnlyByMining == [][SupplyStep]_vars

\* C21 witness: a block with a transaction between two addresses was mined,
\* and the total supply is below what the network minted
C21_Witness ==
    /\ ret.op = "mine_block"
    /\ ret.out # None
    /\ \E k \in 1..Len(ret.out.transactions) : ret.out.transactions[k].sender # Network
    /\ TotalSupply(balances) < NetMint(SelectSeq(ConfirmedFrom(chain, 1),
                                                 LAMBDA tx : tx.sender = Network))

----------------------------------------------------------------------------
(* Invoice creation *)

\* the addresses the wallet will derive next, which callers can fund today
DerivableAddressInputs == {WalletAddress(k) : k \in 0..1}

\* Invoices on a wallet that is in use: before and after an invoice is
\* created, callers generate addresses, mint to addresses of their choice
\* with the faucet, submit network payments, mine blocks and read statuses.
NextInvoiceAddress ==
    \/ (address_counter < MaxAddr /\ GenerateAddress)
    \/ /\ next_tx < MaxTx
       /\ \E a \in DerivableAddressInputs, m \in InvoiceAmountInputs : Faucet(a, m)
    \/ /\ next_tx < MaxTx
       /\ \E a \in DerivableAddressInputs, m \in PaymentAmountInputs :
              AddTransaction(Network, a, m)
    \/ MineBlock
    \/ /\ Len(invoices) < MaxInvoices
       /\ address_counter < MaxAddr
       /\ \E a \in InvoiceAmountInputs : CreateInvoice(a, "TBTC")
    \/ \E i \in InvoiceIdInputs : GetInvoiceStatus(i)

SpecInvoiceAddress == Init /\ [][NextInvoiceAddress]_vars

\* the step is a create_invoice call for this amount
CreateStep(a) == ret'.op = "create_invoice" /\ CreateInvoice(a, "TBTC")

\* a create_invoice call stores a pending invoice with a new id, nothing
\* paid, a one-hour deadline and an address that no earlier invoice has and
\* no confirmed transaction names as recipient, and a status read made right
\* after it returns pending with nothing paid
CreateInvoiceStep ==
    \A a \in InvoiceAmountInputs :
        CreateStep(a) =>
            LET new == invoices'[Len(invoices')]
                confirmed == ConfirmedFrom(chain', 1)
                read == monitor_payments(Ledger, queue', new, now').invoice
            IN /\ invoices' = Append(invoices, new)
               /\ ret'.out = new
               /\ \A i \in 1..Len(invoices) :
                      /\ invoices[i].invoice_id # new.invoice_id
                      /\ invoices[i].payment_address # new.payment_address
               /\ new.amount = a
               /\ new.status = "pending"
               /\ new.paid_amount = 0
               /\ new.expires_at = new.created_at + InvoiceLifetime
               /\ \A k \in 1..Len(confirmed) : confirmed[k].recipient # new.payment_address
               /\ read.status = "pending"
               /\ read.paid_amount = 0

\* C22: right after create_invoice(A, currency) with A > 0, whatever wallet,
\* faucet and ledger operations preceded it, the new invoice has an id no
\* other invoice has, is pending with paid_amount 0 and expires_at =
\* created_at + 3600, its payment_address is used by no earlier invoice and
\* is the recipient of no confirmed transaction, and a get_invoice_status
\* call made before any payment is sent to it returns pending, paid_amount 0.
C22_CreateInvoiceFresh == [][CreateInvoiceStep]_vars

----------------------------------------------------------------------------
(* Mempool *)

\* The mempool as callers see it: they submit payments from the network and
\* between addresses (some rejected), mine blocks and watch the mempool.
NextMempool ==
    \/ /\ next_tx < MaxTx
       /\ \E s \in LedgerAddressInputs \cup {Network}, r \in LedgerAddressInputs,
             a \in LedgerAmountInputs : AddTransaction(s, r, a)
    \/ MineBlock
    \/ \E a \in LedgerAddressInputs : WatchMempool(a)

SpecMempool == Init /\ [][NextMempool]_vars

\* the identities of the transactions of a sequence
Objects(txs) == {txs[k].obj : k \in 1..Len(txs)}

\* mempool and pending_transactions are the same sequence, and it holds the
\* accepted transactions that no block holds
MempoolIsPending ==
    /\ mempool = pending_transactions
    /\ Len(mempool) = Cardinality(Objects(mempool))
    /\ Objects(mempool) = (1..next_tx) \ Objects(ConfirmedFrom(chain, 1))

\* a mine_block call leaves both sequences empty
MineClearsStep == MineStep => (mempool' = <<>> /\ pending_transactions' = <<>>)

\* the step is a watch_mempool call for this address
WatchStep(a) == ret'.op = "watch_mempool" /\ WatchMempool(a)

\* the mempool positions of the transactions that touch an address
Touching(a) == {k \in 1..Len(mempool) : mempool[k].sender = a \/ mempool[k].recipient = a}

\* watch_mempool returns the mempool transactions that touch the address, in
\* mempool order, and changes nothing
WatchMempoolStep ==
    \A a \in LedgerAddressInputs :
        WatchStep(a) =>
            LET found == ret'.out.transactions
            IN /\ Len(found) = Cardinality(Touching(a))
               /\ \A j \in 1..Len(found) :
                      \E k \in Touching(a) :
                          /\ found[j] = to_dict(mempool[k])
                          /\ Cardinality({m \in Touching(a) : m <= k}) = j
               /\ LedgerUnchanged
               /\ UNCHANGED <<address_counter, addresses, invoices, queue, now, next_tx>>

\* C23: in a sequential execution mempool holds exactly the transactions
\* that add_transaction accepted and that no mined block includes, in the
\* order of pending_transactions (the two sequences are equal, and both are
\* empty right after mine_block); watch_mempool(address) returns exactly the
\* mempool transactions whose sender or recipient is the address and changes
\* no state.
C23_MempoolIsPending ==
    [](MempoolIsPending) /\ [][MineClearsStep]_vars /\ [][WatchMempoolStep]_vars

\* C23 witness: after a block was mined, watch_mempool returned some but not
\* all of the transactions waiting in the mempool
C23_Witness ==
    /\ ret.op = "watch_mempool"
    /\ Len(chain) > 1
    /\ ret.out.transactions # <<>>
    /\ Len(ret.out.transactions) < Len(mempool)

----------------------------------------------------------------------------
(* Refunds and invoices *)

\* the amounts a refund is asked for, dust included
AnyRefundAmountInputs == RefundAmountInputs \cup DustAmountInputs

\* a create_refund call, however it ends, leaves every invoice and the
\* webhook queue as they are
RefundFrameStep ==
    \A i \in InvoiceIdInputs, a \in AnyRefundAmountInputs :
        Refund(i, a) => (invoices' = invoices /\ queue' = queue)

\* C24: create_refund, whether it returns success, failure or a validation
\* error, leaves the status, paid_amount, amount, payment_address and
\* expires_at of every invoice unchanged and enqueues no webhook; a paid
\* invoice stays paid with the same paid_amount after any number of refunds.
C24_RefundLeavesInvoices == [][RefundFrameStep]_vars

\* the number of confirmed transactions received by an address
ReceivedCount(address) ==
    Len(SelectSeq(ConfirmedFrom(chain, 1), LAMBDA tx : tx.recipient = address))

\* C24 witness: a second refund of a paid invoice was sent (the first is
\* confirmed, the second waits), and the invoice is paid with its one webhook
C24_Witness ==
    \E i \in InvoiceIds :
        /\ RefundSucceeded(i)
        /\ ReceivedCount(ExternalAddress) >= 1
        /\ \E k \in 1..Len(pending_transactions) :
               pending_transactions[k].recipient = ExternalAddress
        /\ invoices[i].status = "paid"
        /\ WebhookCount(queue, i) = 1

\* a refund of dust failed after validation, and the invoice is paid
FailedRefundReached ==
    \E i \in InvoiceIds :
        /\ ret.op = "create_refund"
        /\ ret.out = [success |-> FALSE, error |-> "Failed to send refund transaction."]
        /\ invoices[i].status = "paid"

----------------------------------------------------------------------------
(* Webhook delivery order *)

\* the number of tasks callers enqueue one after the other
OrderedTasks == MaxWebhooks + 1

\* callers hand the tasks 1, 2, ... to the queue, in this order
EnqueueInOrder ==
    \E k \in 1..OrderedTasks :
        NotYetEnqueued(k) /\ AddWebhook(WebhookUrl, WebhookPayload(k))

\* The WebhookQueue with several tasks: callers enqueue them in order, the
\* worker delivers with the simulated transport, the clock advances.
NextWebhookOrder ==
    \/ EnqueueInOrder
    \/ WorkerGet
    \/ WorkerDeliver
    \/ (now < MaxTicks * WebhookTickStep /\ TickBy(WebhookTickStep))

SpecWebhookOrder == Init /\ [][NextWebhookOrder]_vars

\* the position in the delivery log of the first attempt for payload k
FirstAttempt(k) ==
    CHOOSE i \in 1..Len(deliveries) :
        /\ deliveries[i].payload = WebhookPayload(k)
        /\ \A m \in 1..(i - 1) : deliveries[m].payload # WebhookPayload(k)

\* of two tasks, the one enqueued later is not attempted before the first
\* attempt of the one enqueued earlier
FirstAttemptsInOrder ==
    \A j \in 1..OrderedTasks, k \in 1..OrderedTasks :
        (j < k /\ Attempts(k) > 0)
            => (Attempts(j) > 0 /\ FirstAttempt(j) < FirstAttempt(k))

\* a failed attempt that is retried puts the task behind every queued task
RetryAtBackStep ==
    (worker # None /\ WorkerProcess(FALSE) /\ deliveries' # deliveries
     /\ worker.current_retries < Len(retry_delays))
        => /\ Len(queue') = Len(queue) + 1
           /\ SubSeq(queue', 1, Len(queue)) = queue
           /\ queue'[Len(queue')].payload = worker.payload

\* C25: for two tasks enqueued with add_webhook in the order A then B, the
\* first delivery attempt of A happens before the first delivery attempt of
\* B; a task whose attempt failed re-enters the queue at the back, so its
\* retries may come after the first attempts of tasks enqueued later.
C25_FirstAttemptsFifo == [](FirstAttemptsInOrder) /\ [][RetryAtBackStep]_vars

\* C25 witness: the first task failed, the second task had its first
\* attempt, and the first task's retry came after it
C25_Witness ==
    \E i \in 1..Len(deliveries), j \in 1..Len(deliveries), m \in 1..Len(deliveries) :
        /\ i < j /\ j < m
        /\ deliveries[i].payload = WebhookPayload(1) /\ deliveries[i].retry = 0
        /\ deliveries[j].payload = WebhookPayload(2) /\ deliveries[j].retry = 0
        /\ deliveries[m].payload = WebhookPayload(1) /\ deliveries[m].retry = 1

----------------------------------------------------------------------------
(* Settlement before the deadline *)

\* the confirmed receipts of the invoice's address reached its amount in a
\* block mined no later than its deadline
PaidInTime(invoice) ==
    \E n \in 1..Len(chain) :
        /\ ReceivedUpTo(chain, n, invoice.payment_address) >= invoice.amount
        /\ chain[n].timestamp <= invoice.expires_at

\* the step is a call of the sweep
SweepStep == ret'.op = "check_for_expired_invoices" /\ CheckForExpiredInvoices

\* a pending invoice that was paid in time is paid after the next status
\* read, and no step, the sweep included, makes it expired
PaidInTimeStep ==
    \A i \in InvoiceIds :
        (invoices[i].status = "pending" /\ PaidInTime(invoices[i]))
            => /\ invoices'[i].status # "expired"
               /\ StatusRead(i) => invoices'[i].status = "paid"

\* C26: if the confirmed transactions to a pending invoice's payment_address
\* reach its amount at a time t <= expires_at, the invoice is never
\* reported expired: whichever of get_invoice_status, monitor_payments and
\* check_for_expired_invoices is called first after t, even after
\* expires_at, the invoice ends paid.
C26_PaidInTimeNeverExpires == [][PaidInTimeStep]_vars

----------------------------------------------------------------------------
(* Concurrent status reads *)

\* Two request threads read invoice statuses at the same time, statement by
\* statement, while invoices are created and paid and the clock advances.
NextConcurrentMonitor ==
    \/ /\ Len(invoices) < MaxInvoices
       /\ address_counter < MaxAddr
       /\ \E a \in InvoiceAmountInputs : CreateInvoice(a, "TBTC")
    \/ /\ next_tx < MaxTx
       /\ \E i \in InvoiceIds, a \in PaymentAmountInputs :
              Faucet(invoices[i].payment_address, a)
    \/ \E t \in Threads, i \in InvoiceIdInputs : MonitorCall(t, i)
    \/ \E t \in Threads : MonitorTestTerminal(t)
    \/ \E t \in Threads : MonitorTestExpiry(t)
    \/ \E t \in Threads : MonitorScan(t)
    \/ \E t \in Threads : MonitorUpdate(t)
    \/ \E t \in Threads : MonitorSettle(t)
    \/ \E t \in Threads : MonitorWebhook(t)
    \/ (now < MaxTicks * TickStep /\ Tick)

SpecConcurrentMonitor == Init /\ [][NextConcurrentMonitor]_vars

\* an invoice never has two webhook tasks, and a paid invoice that no thread
\* is working on has one
OneWebhookWhenRacing ==
    \A i \in InvoiceIds :
        /\ WebhookCount(queue, i) <= 1
        /\ (AllIdle /\ invoices[i].status = "paid") => WebhookCount(queue, i) = 1

\* C27: when two get_invoice_status (monitor_payments) calls for the same
\* pending invoice, whose confirmed receipts reach its amount, run on two
\* request threads with their steps interleaved, exactly one webhook is
\* enqueued for the invoice.
C27_OneWebhookUnderConcurrency == OneWebhookWhenRacing

----------------------------------------------------------------------------
(* Concurrent submission and mining *)

\* the thread that submits transactions and the thread that mines
AddThread == "t1"
MineThread == "t2"

\* One request thread submits transactions while another mines blocks, each
\* statement by statement.
NextConcurrentLedger ==
    \/ /\ next_tx < MaxTx
       /\ \E s \in {Network, WalletAddress(0)}, r \in LedgerAddressInputs,
             a \in LedgerAmountInputs : AddCall(AddThread, s, r, a)
    \/ AddTest(AddThread)
    \/ AddPending(AddThread)
    \/ AddMempool(AddThread)
    \/ MineCall(MineThread)
    \/ MineCollect(MineThread)
    \/ MineBuild(MineThread)
    \/ MineUpdate(MineThread)
    \/ MineClear(MineThread)
    \/ MineFilter(MineThread)
    \/ MineRebind(MineThread)

SpecConcurrentLedger == Init /\ [][NextConcurrentLedger]_vars

\* the transactions for which add_transaction has returned True
AcceptedObjects ==
    (1..next_tx) \ {threads[t].transaction.obj :
                        t \in {u \in Threads : threads[u].pc \in {"add_pending", "add_mempool"}}}

\* every transaction for which add_transaction returned True is in a block
\* or in pending_transactions
NoAcceptedDropped ==
    AcceptedObjects \subseteq
        Objects(ConfirmedFrom(chain, 1)) \cup Objects(pending_transactions)

\* once both calls have returned, mempool and pending_transactions hold the
\* same transactions
SamePoolAfterwards == AllIdle => Objects(mempool) = Objects(pending_transactions)

\* C28: when add_transaction on one thread interleaves at any point with
\* mine_block on another, every transaction for which add_transaction
\* returned True is in the block being mined or stays in
\* pending_transactions for a later mine_block; none is dropped from
\* pending_transactions unconfirmed, and mempool and pending_transactions
\* hold the same transactions afterwards.
C28_NoAcceptedTransactionLost == NoAcceptedDropped /\ SamePoolAfterwards

----------------------------------------------------------------------------
(* Self-sends *)

\* the amounts the holder of a payment address sends
SelfSendAmountInputs == {2 * Coin, 3 * Coin}

\* An invoice whose payment address, which the wallet manages, is used as a
\* sender too: payers mint to it with the faucet, its holder sends funds from
\* it to itself or away, blocks are mined and the status is read.
NextSelfSend ==
    \/ /\ Len(invoices) < MaxInvoices
       /\ address_counter < MaxAddr
       /\ \E a \in InvoiceAmountInputs : CreateInvoice(a, "TBTC")
    \/ /\ next_tx < MaxTx
       /\ \E i \in InvoiceIds, a \in PaymentAmountInputs :
              Faucet(invoices[i].payment_address, a)
    \/ /\ next_tx < MaxTx
       /\ \E i \in InvoiceIds, m \in SelfSendAmountInputs :
              \E r \in {invoices[i].payment_address, ExternalAddress} :
                  SendFunds(invoices[i].payment_address, r, m)
    \/ MineBlock
    \/ \E i \in InvoiceIdInputs : GetInvoiceStatus(i)

SpecSelfSend == Init /\ [][NextSelfSend]_vars

\* the sum of the amounts of the confirmed transactions that other
\* addresses sent to this address
ReceivedFromOthers(address) ==
    SumAmounts(SelectSeq(ConfirmedFrom(chain, 1),
                         LAMBDA tx : tx.recipient = address /\ tx.sender # address))

\* paid_amount is covered by what other addresses sent, and so is a paid status
PaidByOthers ==
    \A i \in InvoiceIds :
        /\ invoices[i].paid_amount <= ReceivedFromOthers(invoices[i].payment_address)
        /\ invoices[i].status = "paid"
               => ReceivedFromOthers(invoices[i].payment_address) >= invoices[i].amount

\* C29: an invoice's paid_amount never exceeds the total amount of the
\* confirmed transactions sent to its payment_address by other addresses; a
\* transaction that the payment_address sends to itself does not raise
\* paid_amount and cannot move the invoice to paid.
C29_SelfSendsDoNotPay == PaidByOthers

----------------------------------------------------------------------------
(* Webhook retry schedule *)

\* the worker holds a task and this step is its call of _send_webhook
AttemptStep == worker # None /\ WorkerDeliver /\ deliveries' # deliveries

\* the worker calls _send_webhook only when the task is due
NotBeforeDueStep == AttemptStep => now >= worker.next_attempt_time

\* add_webhook puts a task at the back with no retries, due now
EnqueuedNowStep ==
    \A url \in WebhookUrlInputs, k \in WebhookPayloadInputs :
        (ret'.op = "add_webhook" /\ AddWebhook(url, WebhookPayload(k)))
            => /\ Len(queue') = Len(queue) + 1
               /\ SubSeq(queue', 1, Len(queue)) = queue
               /\ queue'[Len(queue')] = [url |-> url, payload |-> WebhookPayload(k),
                                         current_retries |-> 0, next_attempt_time |-> now]

\* a failed attempt with retries left requeues the task with one retry more,
\* due after the delay the schedule gives for the failed attempt
RequeuedLaterStep ==
    (AttemptStep /\ ~deliveries'[Len(deliveries')].success
     /\ worker.current_retries < Len(retry_delays))
        => /\ Len(queue') = Len(queue) + 1
           /\ queue'[Len(queue')] =
                  [url |-> worker.url, payload |-> worker.payload,
                   current_retries |-> worker.current_retries + 1,
                   next_attempt_time |-> now + retry_delays[worker.current_retries + 1]]

\* C30: the worker never attempts a task while the clock is earlier than its
\* next_attempt_time; add_webhook enqueues a task with current_retries = 0
\* and next_attempt_time = now; when the attempt made with current_retries =
\* k fails and k < len(retry_delays), the task is requeued with k + 1 and
\* next_attempt_time = time of the failure + retry_delays[k] (counted from
\* 0), so successive retries are at least 5, 10 and 30 seconds apart.
C30_RetrySchedule ==
    /\ [][NotBeforeDueStep]_vars
    /\ [][EnqueuedNowStep]_vars
    /\ [][RequeuedLaterStep]_vars

\* C30 witness: a task failed for the third time, no earlier than 15
\* seconds after it was enqueued, and waits in the queue for its last
\* attempt 30 seconds later
C30_Witness ==
    \E i \in 1..Len(queue) :
        /\ queue[i].current_retries = Len(retry_delays)
        /\ queue[i].next_attempt_time = now + retry_delays[Len(retry_delays)]
        /\ now >= retry_delays[1] + retry_delays[2]
        /\ Attempts(queue[i].payload.invoice_id) = Len(retry_delays)

----------------------------------------------------------------------------
(* The request layer *)

\* the clock of the request layer advances by half a rate-limit window
ApiTickStep == window_seconds \div 2

\* the bodies of the create-invoice requests: valid, with a zero amount,
\* without an amount
RequestDataInputs ==
    {[amount |-> 10 * Coin, currency |-> "TBTC"],
     [amount |-> 0, currency |-> "TBTC"],
     [currency |-> "TBTC"]}

\* Clients post create-invoice requests to the view while the clock advances.
NextApi ==
    \/ \E key \in ClientKeyInputs, data \in RequestDataInputs :
           CreateTestnetInvoice(key, data)
    \/ (now < MaxTicks * ApiTickStep /\ TickBy(ApiTickStep))

SpecApi == Init /\ [][NextApi]_vars

\* the step is a create-invoice request of this client with this body
CreateRequest(key, data) ==
    ret'.op = "create_testnet_invoice" /\ CreateTestnetInvoice(key, data)

\* a request with a positive amount and a currency, from a client within the
\* rate limit, stores one new pending invoice and returns it with status 201
ValidRequestStep ==
    \A key \in ClientKeyInputs, data \in RequestDataInputs :
        (/\ CreateRequest(key, data)
         /\ DOMAIN data = {"amount", "currency"}
         /\ data.amount > 0
         /\ check_rate_limit(request_log, key, now).out)
            => /\ "status" \in DOMAIN ret'.out
               /\ ret'.out.status = 201
               /\ Len(invoices') = Len(invoices) + 1
               /\ LET new == invoices'[Len(invoices')]
                  IN /\ ret'.out.data = new
                     /\ new.amount = data.amount
                     /\ new.currency = data.currency
                     /\ new.status = "pending"
                     /\ new.paid_amount = 0
                     /\ new.expires_at = new.created_at + InvoiceLifetime

\* C31: a create-invoice request to the request layer that carries a
\* positive amount and a currency, from a client within the rate limit,
\* completes without error: it stores one new pending invoice and returns
\* its state (invoice_id, amount, currency, payment_address, status pending,
\* paid_amount 0, created_at, expires_at).
C31_CreateRequestSucceeds == [][ValidRequestStep]_vars

----------------------------------------------------------------------------
(* Status and paid amount *)

\* status and paid_amount of every invoice with a positive amount agree, and
\* paid_amount is covered by the confirmed receipts of its address
StatusMatchesPaidAmount ==
    \A i \in InvoiceIds :
        invoices[i].amount > 0
            => /\ invoices[i].status = "paid" => invoices[i].paid_amount >= invoices[i].amount
               /\ invoices[i].status = "pending" => invoices[i].paid_amount < invoices[i].amount
               /\ invoices[i].paid_amount <= ConfirmedReceived(invoices[i].payment_address)

\* C32: after any sequence of sequential operations, every invoice with
\* amount > 0 satisfies: paid implies paid_amount >= amount, pending implies
\* paid_amount < amount, and in every status paid_amount is at most the sum
\* of the amounts of the confirmed transactions whose recipient is its
\* payment_address.
C32_StatusMatchesPaidAmount == StatusMatchesPaidAmount

\* C32 witness: an invoice expired partially paid, and payments confirmed
\* after that are not in its paid_amount
C32_Witness ==
    \E i \in InvoiceIds :
        /\ invoices[i].status = "expired"
        /\ invoices[i].paid_amount > 0
        /\ invoices[i].paid_amount < ConfirmedReceived(invoices[i].payment_address)


----------------------------------------------------------------------------
(* Webhook tasks and a raising transport *)

\* the last recorded attempt for payload k succeeded
LastAttemptSucceeded(k) ==
    \E i \in 1..Len(deliveries) :
        /\ deliveries[i].payload = WebhookPayload(k)
        /\ deliveries[i].success
        /\ \A j \in (i + 1)..Len(deliveries) : deliveries[j].payload # WebhookPayload(k)

\* a task leaves the queue only after a success or after the last attempt of
\* the schedule
RemovedOnlyWhenDone ==
    \A k \in WebhookPayloadInputs :
        (Live(k) /\ ~Live(k)')
            => (LastAttemptSucceeded(k)' \/ Attempts(k)' = MaxAttempts)

\* C33: a webhook task is removed from the queue for good only after a
\* delivery attempt succeeded or after the failed attempts exhausted
\* retry_delays, whether the transport fails by returning False or by raising;
\* an attempt that raises is followed by a retry while the schedule is not
\* exhausted.
C33_RemovedOnlyWhenDone == [][RemovedOnlyWhenDone]_vars

\* a task is gone after a single attempt that did not succeed
DroppedAfterRaise ==
    \E k \in WebhookPayloadInputs :
        Gone(k) /\ Attempts(k) = 1 /\ ~LastAttemptSucceeded(k)


----------------------------------------------------------------------------
(* The transactions of a refund *)

\* the step is a create_refund call on invoice i for amount a that returns
\* success
RefundSucceeds(i, a) ==
    /\ Refund(i, a)
    /\ "success" \in DOMAIN ret'.out
    /\ ret'.out.success

\* the transaction object obj is in some block of ch
InSomeBlock(ch, obj) ==
    \E b \in 1..Len(ch) : \E k \in 1..Len(ch[b].transactions) :
        ch[b].transactions[k].obj = obj

\* the refund transaction waits, alone, in pending_transactions and mempool
\* and is in no block
RefundWaits(a) ==
    /\ Len(pending_transactions') = 1
    /\ LET refund == pending_transactions'[1]
       IN /\ refund.sender = generated'[Len(generated')]
          /\ refund.recipient = ExternalAddress
          /\ refund.amount = a
          /\ Len(mempool') = 1
          /\ mempool'[1].obj = refund.obj
          /\ ~InSomeBlock(chain', refund.obj)

\* the call appends one block: the transactions pending before the call
\* followed by the faucet mint of amount * 2 to the newly generated address
FaucetBlockOnly(a) ==
    /\ Len(chain') = Len(chain) + 1
    /\ SubSeq(chain', 1, Len(chain)) = chain
    /\ LET block == chain'[Len(chain')].transactions
           minted == block[Len(block)]
       IN /\ Len(block) = Len(pending_transactions) + 1
          /\ \A k \in 1..Len(pending_transactions) :
                 block[k].obj = pending_transactions[k].obj
          /\ minted.sender = Network
          /\ minted.recipient = generated'[Len(generated')]
          /\ minted.amount = a * FaucetFactor
          /\ minted.recipient \notin addresses
          /\ ~InSomeBlock(chain, minted.obj)

\* the step leaves the balance of every address but the new one as the
\* transactions pending before the call make it
BalancesFromPending ==
    \A address \in DOMAIN balances' :
        address # generated'[Len(generated')]
            => BalanceOf(balances', address)
                   = BalanceOf(update_balances(balances,
                                   [k \in 1..Len(pending_transactions) |->
                                       FinalizeFee(pending_transactions[k])]),
                               address)

\* the step leaves the balance of the refund address as it is
RefundAddressUntouched ==
    BalanceOf(balances', ExternalAddress) = BalanceOf(balances, ExternalAddress)

RefundStepAsStated ==
    \A i \in InvoiceIds, a \in AnyRefundAmountInputs :
        RefundSucceeds(i, a)
            => /\ RefundWaits(a)
               /\ RefundAddressUntouched
               /\ BalanceOf(balances', invoices[i].payment_address)
                      >= BalanceOf(balances, invoices[i].payment_address)
               /\ FaucetBlockOnly(a)

RefundStepAmended ==
    \A i \in InvoiceIds, a \in AnyRefundAmountInputs :
        RefundSucceeds(i, a)
            => /\ RefundWaits(a)
               /\ FaucetBlockOnly(a)
               /\ BalancesFromPending
               /\ generated'[Len(generated')] # invoices[i].payment_address
               /\ pending_transactions = <<>> => RefundAddressUntouched

----------------------------------------------------------------------------
(* The rate limit of invoice creation *)

\* the requests recorded for a client that arrived less than window_seconds
\* before t
RecentRequests(key, t) ==
    SelectSeq(request_log[key], LAMBDA x : t - x < window_seconds)

\* the last response was the refusal of the rate limit
RateLimited(out) == "status" \in DOMAIN out /\ out.status = 429

\* a request is refused exactly when max_requests admitted requests of its
\* client are less than window_seconds old; a refused request is not
\* recorded, an admitted one is, requests of window_seconds ago or earlier
\* are forgotten, and the records of the other clients stay as they are
RateLimitStep ==
    \A key \in ClientKeyInputs, data \in RequestDataInputs :
        CreateRequest(key, data)
            => /\ RateLimited(ret'.out) <=> Len(RecentRequests(key, now)) >= max_requests
               /\ request_log'[key] = IF RateLimited(ret'.out)
                                      THEN RecentRequests(key, now)
                                      ELSE Append(RecentRequests(key, now), now)
               /\ \A other \in ClientKeyInputs \ {key} :
                      request_log'[other] = request_log[other]

\* the requests recorded for a client are at most max_requests, in order of
\* arrival, within a span shorter than window_seconds
RateLimitLog ==
    \A key \in ClientKeyInputs :
        LET timestamps == request_log[key]
        IN /\ Len(timestamps) <= max_requests
           /\ \A k \in 1..(Len(timestamps) - 1) : timestamps[k] <= timestamps[k + 1]
           /\ timestamps # <<>> => timestamps[Len(timestamps)] - timestamps[1] < window_seconds

\* C35: for each client key, among invoice-creation requests whose arrival
\* times all lie within a span shorter than 60 seconds, _check_rate_limit
\* admits at most 10; a rejected request is not recorded against the client,
\* a request older than 60 seconds no longer counts, and requests from one
\* client key never affect the decision for another.
C35_RateLimit == [](RateLimitLog) /\ [][RateLimitStep]_vars

\* C35 witness: a client that used up a window, and after it a second one,
\* was refused, while the other client has been admitted fewer times
C35_Witness ==
    /\ ret.op = "create_testnet_invoice"
    /\ RateLimited(ret.out)
    /\ now >= window_seconds
    /\ \E key \in ClientKeyInputs :
           /\ Len(request_log[key]) = max_requests
           /\ request_log[key][1] = now
           /\ \E other \in ClientKeyInputs \ {key} :
                  /\ request_log[other] # <<>>
                  /\ Len(request_log[other]) < max_requests

====
